---------------------------- MODULE Spec2Model ----------------------------
(***************************************************************************)
(* Model of set_and_forget/basic_set_and_forget_optimisation.py: the       *)
(* squad optimizer (basic_set_and_forget), the Gameweek Scorer             *)
(* (single_gw_simulation), the Season Simulator (simulate_model_team), the *)
(* bench-order search (find_optimal_weighting_and_ordering), the captaincy *)
(* search (best_captain_vice_captain) and the __main__ block.              *)
(*                                                                         *)
(* A DataFrame is a sequence of rows, in row order.  A row is a record     *)
(*   [id, positions, in_lineup, on_bench, is_captain, is_vice_captain,     *)
(*    points, minutes]                                                     *)
(* in which points[g] and minutes[g] are the columns gw_<g>_points and     *)
(* gw_<g>_minutes.                                                         *)
(***************************************************************************)
EXTENDS Integers, Sequences, FiniteSets, TLC

VARIABLES
    pc,          \* position of the running function
    current_gw,  \* last completed gameweek (get_current_gameweek)
    df,          \* the frame handed to the Gameweek Scorer / Season Simulator
    gw,          \* the gameweek being scored
    sim,         \* the local variables of single_gw_simulation
    next_player, \* index into player_not_played of the substitution loop
    result,      \* the value single_gw_simulation returned
    player_gameweek_df, \* the frame of all players (all_player_data)
    search,      \* the local variables of find_optimal_weighting_and_ordering
    captaincy,   \* the local variables of best_captain_vice_captain
    main,        \* the local variables of the __main__ block
    optimizer,   \* basic_set_and_forget and retrieve_refactored_model_output
    season       \* the local variables of simulate_model_team

scorer_vars == <<df, gw, sim, next_player, result>>

call_vars == <<optimizer, season>>

driver_vars == <<player_gameweek_df, search, captaincy, main, optimizer, season>>

vars == <<pc, current_gw, df, gw, sim, next_player, result,
          player_gameweek_df, search, captaincy, main, optimizer, season>>

-----------------------------------------------------------------------------
(* Bounds of the model *)

\* Largest number of starting players that did not feature in a gameweek.
MaxAbsent == 4

-----------------------------------------------------------------------------
(* Values *)

\* Python's None; player ids are positive integers.
None == 0

Outfield == {"DEF", "MID", "FWD"}

Position == {"GK"} \cup Outfield

RECURSIVE SumSeq(_)
SumSeq(s) == IF Len(s) = 0 THEN 0 ELSE s[1] + SumSeq(Tail(s))

Count(s, x) == Cardinality({i \in DOMAIN s : s[i] = x})

Rep(x, n) == [i \in 1..n |-> x]

\* df['id'].tolist()
Ids(frame) == [i \in 1..Len(frame) |-> frame[i].id]

\* df[df['id'] == id].iloc[0]
RowOf(frame, id) == frame[CHOOSE i \in 1..Len(frame) :
                            /\ frame[i].id = id
                            /\ \A j \in 1..(i - 1) : frame[j].id # id]

-----------------------------------------------------------------------------
(* simulate_model_team.get_bench_player *)

\* get_bench_player passing over the bench players who did not feature.
get_bench_player_featured_only(frame, bench_ids, pos) ==
    LET featured == SelectSeq(bench_ids,
            LAMBDA id : \E i \in 1..Len(frame) :
                /\ frame[i].id = id
                /\ \A g \in DOMAIN frame[i].minutes : frame[i].minutes[g] > 0)
    IN  IF Len(featured) = 0 THEN None
        ELSE IF pos = "*" THEN featured[1]
        ELSE IF pos \in Outfield
        THEN LET of_pos == SelectSeq(featured,
                     LAMBDA id : \E i \in 1..Len(frame) :
                                     frame[i].id = id /\ frame[i].positions = pos)
             IN  IF Len(of_pos) > 0 THEN of_pos[1] ELSE None
        ELSE None

\* get_bench_player returning the last bench player of the position asked.
get_bench_player_last_of_position(frame, bench_ids, pos) ==
    IF Len(bench_ids) = 0 THEN None
    ELSE IF pos = "*" THEN bench_ids[1]
    ELSE IF pos \in Outfield
    THEN LET of_pos == SelectSeq(bench_ids,
                 LAMBDA id : \E i \in 1..Len(frame) :
                                 frame[i].id = id /\ frame[i].positions = pos)
         IN  IF Len(of_pos) > 0 THEN of_pos[Len(of_pos)] ELSE None
    ELSE None

\* Lines 202-241.
get_bench_player(frame, bench_ids, pos) ==
    IF Len(bench_ids) = 0 THEN None
    ELSE IF pos = "*" THEN bench_ids[1]
    ELSE IF pos \in Outfield
    THEN LET of_pos == SelectSeq(bench_ids,
                 LAMBDA id : \E i \in 1..Len(frame) :
                                 frame[i].id = id /\ frame[i].positions = pos)
         IN  IF Len(of_pos) > 0 THEN of_pos[1] ELSE None
    ELSE None

-----------------------------------------------------------------------------
(* simulate_model_team.single_gw_simulation, statement by statement *)

\* Lines 245, 258-264: the locals set up before the scoring loop.
gw_locals(frame) ==
    LET starting_players == SelectSeq(frame, LAMBDA r : r.in_lineup)
        bench_outfield  == SelectSeq(frame,
                               LAMBDA r : r.on_bench /\ r.positions # "GK")
        bench_keepers   == SelectSeq(frame,
                               LAMBDA r : r.on_bench /\ r.positions = "GK")
    IN  [ team_gameweek_points |-> 0,
          bench_player_ids     |-> Ids(bench_outfield),
          bench_keeper_id      |-> Ids(bench_keepers)[1],
          starting_defenders   |->
              Len(SelectSeq(starting_players, LAMBDA r : r.positions = "DEF")),
          starting_midfielders |->
              Len(SelectSeq(starting_players, LAMBDA r : r.positions = "MID")),
          starting_forwards    |->
              Len(SelectSeq(starting_players, LAMBDA r : r.positions = "FWD")),
          player_not_played    |-> << >>,
          did_captain_play     |-> FALSE,
          vice_play_in_captains_place |-> FALSE,
          subs_made            |-> << >> ]

\* score_starters reading the first gameweek's columns whatever gw is.
score_starters_first_gameweek(s, g, frame) ==
    LET starting_players == SelectSeq(frame, LAMBDA r : r.in_lineup)
        played     == SelectSeq(starting_players, LAMBDA r : r.minutes[1] > 0)
        not_played == SelectSeq(starting_players, LAMBDA r : ~(r.minutes[1] > 0))
    IN  [s EXCEPT
            !.team_gameweek_points =
                @ + SumSeq([i \in 1..Len(played) |-> played[i].points[1]]),
            !.player_not_played = Ids(not_played)]

\* score_starters with "featured" read as more than one minute played.
score_starters_over_one_minute(s, g, frame) ==
    LET starting_players == SelectSeq(frame, LAMBDA r : r.in_lineup)
        played     == SelectSeq(starting_players, LAMBDA r : r.minutes[g] > 1)
        not_played == SelectSeq(starting_players, LAMBDA r : ~(r.minutes[g] > 1))
    IN  [s EXCEPT
            !.team_gameweek_points =
                @ + SumSeq([i \in 1..Len(played) |-> played[i].points[g]]),
            !.player_not_played = Ids(not_played)]

\* Lines 268-273: featured starters score, the others queue for substitution.
score_starters(s, g, frame) ==
    LET starting_players == SelectSeq(frame, LAMBDA r : r.in_lineup)
        played     == SelectSeq(starting_players, LAMBDA r : r.minutes[g] > 0)
        not_played == SelectSeq(starting_players, LAMBDA r : ~(r.minutes[g] > 0))
    IN  [s EXCEPT
            !.team_gameweek_points =
                @ + SumSeq([i \in 1..Len(played) |-> played[i].points[g]]),
            !.player_not_played = Ids(not_played)]

\* captaincy_bonus with the captain's points added whether he featured or not.
captaincy_bonus_always_captain(s, g, frame) ==
    LET captain      == SelectSeq(frame, LAMBDA r : r.is_captain)[1]
        vice_captain == SelectSeq(frame, LAMBDA r : r.is_vice_captain)[1]
    IN  IF captain.minutes[g] > 0
        THEN [s EXCEPT !.team_gameweek_points = @ + captain.points[g],
                       !.did_captain_play = TRUE]
        ELSE [s EXCEPT !.team_gameweek_points = @ + captain.points[g],
                       !.vice_play_in_captains_place =
                            (vice_captain.minutes[g] > 0)]

\* Lines 278-288: the captaincy bonus and its two flags.
captaincy_bonus(s, g, frame) ==
    LET captain      == SelectSeq(frame, LAMBDA r : r.is_captain)[1]
        vice_captain == SelectSeq(frame, LAMBDA r : r.is_vice_captain)[1]
    IN  IF captain.minutes[g] > 0
        THEN [s EXCEPT !.team_gameweek_points = @ + captain.points[g],
                       !.did_captain_play = TRUE]
        ELSE [s EXCEPT !.team_gameweek_points = @ + vice_captain.points[g],
                       !.vice_play_in_captains_place =
                            (vice_captain.minutes[g] > 0)]

\* The counter of a position (starting_defenders, ...).
position_count(s, pos) ==
    CASE pos = "DEF" -> s.starting_defenders
      [] pos = "MID" -> s.starting_midfielders
      [] pos = "FWD" -> s.starting_forwards
      [] OTHER -> 0

\* raise_count moving the DEF counter only.
raise_count_defenders_only(s, pos) ==
    CASE pos = "DEF" -> [s EXCEPT !.starting_defenders = @ + 1]
      [] OTHER -> s

\* Lines 301, 310-314 (and their copies): the counter of a position rises.
raise_count(s, pos) ==
    CASE pos = "DEF" -> [s EXCEPT !.starting_defenders = @ + 1]
      [] pos = "MID" -> [s EXCEPT !.starting_midfielders = @ + 1]
      [] pos = "FWD" -> [s EXCEPT !.starting_forwards = @ + 1]
      [] OTHER -> s

\* position_floor with the DEF floor one too low.
position_floor_low_def(pos) ==
    CASE pos = "DEF" -> 2
      [] pos = "MID" -> 2
      [] pos = "FWD" -> 1
      [] OTHER -> 0

\* Lines 297, 318, 339: the count at or below which only a bench player of
\* the same position may come on.
position_floor(pos) ==
    CASE pos = "DEF" -> 3
      [] pos = "MID" -> 2
      [] pos = "FWD" -> 1
      [] OTHER -> 0

\* remove_id leaving the list as it was.
remove_id_nothing(ids, id) == ids

\* bench_player_ids.remove(substitute_id): the first occurrence goes.
remove_id(ids, id) ==
    LET at == CHOOSE i \in 1..Len(ids) :
                  ids[i] = id /\ \A j \in 1..(i - 1) : ids[j] # id
    IN  SubSeq(ids, 1, at - 1) \o SubSeq(ids, at + 1, Len(ids))

\* bring_on with the substitute's points counted twice.
bring_on_points_twice(s, g, frame, player, substitute_id, counted) ==
    LET t == raise_count(s, counted)
    IN  [t EXCEPT
            !.bench_player_ids = remove_id(@, substitute_id),
            !.team_gameweek_points =
                @ + 2 * RowOf(frame, substitute_id).points[g],
            !.subs_made = Append(@, [sub_out |-> player,
                                     sub_in  |-> substitute_id])]

\* Lines 300-303, 307-316 (and their MID and FWD copies): the substitute
\* leaves the bench, a counter rises, the points and the entry are added.
\* counted is the position whose counter rises.
bring_on(s, g, frame, player, substitute_id, counted) ==
    LET t == raise_count(s, counted)
    IN  [t EXCEPT
            !.bench_player_ids = remove_id(@, substitute_id),
            !.team_gameweek_points = @ + RowOf(frame, substitute_id).points[g],
            !.subs_made = Append(@, [sub_out |-> player,
                                     sub_in  |-> substitute_id])]

\* substitute_outfield writing an entry without a substitute when nobody
\* is left to come on.
substitute_outfield_records_unfilled(s, g, frame, player, player_position) ==
    LET substitute_id ==
            IF position_count(s, player_position)
                   <= position_floor(player_position)
            THEN get_bench_player(frame, s.bench_player_ids, player_position)
            ELSE get_bench_player(frame, s.bench_player_ids, "*")
    IN  IF substitute_id # None
        THEN bring_on(s, g, frame, player, substitute_id,
                      RowOf(frame, substitute_id).positions)
        ELSE [s EXCEPT !.subs_made = Append(@, [sub_out |-> player,
                                                sub_in  |-> None])]

\* Lines 296-358: one non-featuring outfield starter.
substitute_outfield(s, g, frame, player, player_position) ==
    IF position_count(s, player_position) <= position_floor(player_position)
    THEN LET substitute_id ==
                 get_bench_player(frame, s.bench_player_ids, player_position)
         IN  IF substitute_id # None
             THEN bring_on(s, g, frame, player, substitute_id, player_position)
             ELSE s
    ELSE LET substitute_id == get_bench_player(frame, s.bench_player_ids, "*")
         IN  IF substitute_id # None
             THEN bring_on(s, g, frame, player, substitute_id,
                           RowOf(frame, substitute_id).positions)
             ELSE s

\* substitute_keeper with the substitute's points left out of the total.
substitute_keeper_no_points(s, g, frame, player, player_position) ==
    IF s.bench_keeper_id # None /\ player_position = "GK"
    THEN LET substitute_id == s.bench_keeper_id
         IN  [s EXCEPT
                 !.bench_keeper_id = None,
                 !.subs_made = Append(@, [sub_out |-> player,
                                          sub_in  |-> substitute_id])]
    ELSE s

\* Lines 359-365: the starting goalkeeper.
substitute_keeper(s, g, frame, player, player_position) ==
    IF s.bench_keeper_id # None /\ player_position = "GK"
    THEN LET substitute_id == s.bench_keeper_id
         IN  [s EXCEPT
                 !.bench_keeper_id = None,
                 !.team_gameweek_points =
                     @ + RowOf(frame, substitute_id).points[g],
                 !.subs_made = Append(@, [sub_out |-> player,
                                          sub_in  |-> substitute_id])]
    ELSE s

\* attempt_substitution with the goalkeeper served from the outfield bench
\* first: he takes the first bench player left, whatever the position.
attempt_substitution_keeper_takes_bench(s, g, frame, player) ==
    LET player_position == RowOf(frame, player).positions
        substitute_id == get_bench_player(frame, s.bench_player_ids, "*")
    IN  IF player_position \in Outfield
        THEN substitute_outfield(s, g, frame, player, player_position)
        ELSE IF substitute_id # None
        THEN bring_on(s, g, frame, player, substitute_id,
                      RowOf(frame, substitute_id).positions)
        ELSE substitute_keeper(s, g, frame, player, player_position)

\* Lines 293-365: one iteration of the loop over player_not_played.
attempt_substitution(s, g, frame, player) ==
    LET player_position == RowOf(frame, player).positions
        t == IF player_position \in Outfield
             THEN substitute_outfield(s, g, frame, player, player_position)
             ELSE s
    IN  substitute_keeper(t, g, frame, player, player_position)

\* Lines 292-365: the whole loop, from the k-th queued player on.
RECURSIVE substitution_loop(_, _, _, _)
substitution_loop(s, g, frame, k) ==
    IF k > Len(s.player_not_played) THEN s
    ELSE substitution_loop(
             attempt_substitution(s, g, frame, s.player_not_played[k]),
             g, frame, k + 1)

\* Lines 368-374.
return_dic(s) ==
    [ points           |-> s.team_gameweek_points,
      subs_made        |-> s.subs_made,
      did_captain_play |-> s.did_captain_play,
      vice_play_in_captains_place |-> s.vice_play_in_captains_place ]

\* Lines 243-374.  cur is the closure variable current_gw.
single_gw_simulation(g, frame, cur) ==
    IF g > cur THEN 0
    ELSE return_dic(
             substitution_loop(
                 captaincy_bonus(score_starters(gw_locals(frame), g, frame),
                                 g, frame),
                 g, frame, 1))

-----------------------------------------------------------------------------
(* simulate_model_team *)

\* Lines 377-385: one {gameweek: result} entry per completed gameweek.
simulate_model_team(frame, cur) ==
    [i \in 1..cur |-> (i :> single_gw_simulation(i, frame, cur))]

\* Lines 487-490 (and 554-557, 620-623): the season total of a simulation.
RECURSIVE season_total(_)
season_total(simulated_season) ==
    IF Len(simulated_season) = 0 THEN 0
    ELSE LET entry == simulated_season[1]
             gw_num == CHOOSE k \in DOMAIN entry : TRUE
         IN  entry[gw_num].points + season_total(Tail(simulated_season))

-----------------------------------------------------------------------------
(* basic_set_and_forget: the squad optimizer.  A bench weight is held in   *)
(* hundredths (0.15 is 15) and the objective is scaled by 100 with it.     *)

\* range(player_count): the decision variables lineup[i], bench[i],
\* captaincy[i] and vice_captaincy[i] are indexed by row.  An assignment is
\* a record of four sets of rows, the rows whose variable is 1.
Rows(frame) == 1..Len(frame)

RowsAt(frame, pos) == {i \in Rows(frame) : frame[i].positions = pos}

\* sum(x[i] * df[column][i] for i in range(player_count)), chosen the rows
\* with x[i] = 1.
RECURSIVE SumColumn(_, _, _, _)
SumColumn(frame, chosen, column, n) ==
    IF n = 0 THEN 0
    ELSE (IF n \in chosen THEN frame[n][column] ELSE 0)
            + SumColumn(frame, chosen, column, n - 1)

\* Line 75, times 100.
Objective(a, frame, weight) ==
    100 * SumColumn(frame, a.lineup, "total_points", Len(frame))
    + 100 * SumColumn(frame, a.captaincy, "total_points", Len(frame))
    + weight * SumColumn(frame, a.vice_captaincy, "total_points", Len(frame))
    + weight * SumColumn(frame, a.bench, "total_points", Len(frame))

\* BudgetConstraint with the cost of the lineup alone held to the budget.
BudgetConstraint_lineup_only(a, frame, budget) ==
    SumColumn(frame, a.lineup, "start_cost", Len(frame)) <= budget

\* Line 78.
BudgetConstraint(a, frame, budget) ==
    SumColumn(frame, a.lineup \cup a.bench, "start_cost", Len(frame)) <= budget

\* Lines 81-94.
PositionConstraints(a, frame) ==
    /\ Cardinality(a.lineup \cap RowsAt(frame, "GK")) = 1
    /\ Cardinality((a.lineup \cup a.bench) \cap RowsAt(frame, "GK")) = 2
    /\ Cardinality(a.lineup \cap RowsAt(frame, "DEF")) >= 3
    /\ Cardinality((a.lineup \cup a.bench) \cap RowsAt(frame, "DEF")) = 5
    /\ Cardinality(a.lineup \cap RowsAt(frame, "MID")) >= 2
    /\ Cardinality((a.lineup \cup a.bench) \cap RowsAt(frame, "MID")) = 5
    /\ Cardinality(a.lineup \cap RowsAt(frame, "FWD")) >= 1
    /\ Cardinality((a.lineup \cup a.bench) \cap RowsAt(frame, "FWD")) = 3

\* TeamConstraints with the club cap one too high.
TeamConstraints_four_a_club(a, frame) ==
    /\ Cardinality(a.lineup) = 11
    /\ Cardinality(a.bench) = 4
    /\ Cardinality(a.lineup) + Cardinality(a.bench) = 15
    /\ \A teams \in {frame[i].short_name : i \in Rows(frame)} :
          Cardinality({i \in a.lineup \cup a.bench :
                          frame[i].short_name = teams}) <= 4

\* Lines 97-99 and 102-103.
TeamConstraints(a, frame) ==
    /\ Cardinality(a.lineup) = 11
    /\ Cardinality(a.bench) = 4
    /\ Cardinality(a.lineup) + Cardinality(a.bench) = 15
    /\ \A teams \in {frame[i].short_name : i \in Rows(frame)} :
          Cardinality({i \in a.lineup \cup a.bench :
                          frame[i].short_name = teams}) <= 3

\* CaptaincyConstraints without line 109.
CaptaincyConstraints_same_player(a, c, v) ==
    /\ c \in a.lineup
    /\ v \in a.lineup

\* Lines 100-101 and 107-109, for the captain on row c and the vice-captain
\* on row v.
CaptaincyConstraints(a, c, v) ==
    /\ c \in a.lineup
    /\ v \in a.lineup
    /\ c # v

\* The lineup and bench a position can contribute: total of its rows in the
\* squad, at least least of them in the lineup, no row in both (line 106).
PositionSplits(rows, total, least) ==
    UNION {{<<L, T \ L>> : L \in {X \in SUBSET T : Cardinality(X) >= least}}
           : T \in {X \in SUBSET rows : Cardinality(X) = total}}

\* FeasibleSquads with line 81 read as "at least one goalkeeper starts".
FeasibleSquads_keepers_at_least_one(frame, budget) ==
    LET raw == {q \in
                    PositionSplits(RowsAt(frame, "GK"), 2, 1)
                    \X PositionSplits(RowsAt(frame, "DEF"), 5, 3)
                    \X PositionSplits(RowsAt(frame, "MID"), 5, 2)
                    \X PositionSplits(RowsAt(frame, "FWD"), 3, 1) :
                  Cardinality(q[1][1]) + Cardinality(q[2][1])
                        + Cardinality(q[3][1]) + Cardinality(q[4][1]) = 11}
        squads == {[lineup |-> q[1][1] \cup q[2][1] \cup q[3][1] \cup q[4][1],
                    bench  |-> q[1][2] \cup q[2][2] \cup q[3][2] \cup q[4][2]]
                   : q \in raw}
    IN  {a \in squads : /\ BudgetConstraint(a, frame, budget)
                        /\ TeamConstraints(a, frame)}

\* The lineup/bench choices that satisfy every constraint on the lineup and
\* bench variables.
FeasibleSquads(frame, budget) ==
    LET raw == {q \in
                    {g \in PositionSplits(RowsAt(frame, "GK"), 2, 1) :
                        Cardinality(g[1]) = 1}
                    \X PositionSplits(RowsAt(frame, "DEF"), 5, 3)
                    \X PositionSplits(RowsAt(frame, "MID"), 5, 2)
                    \X PositionSplits(RowsAt(frame, "FWD"), 3, 1) :
                  Cardinality(q[2][1]) + Cardinality(q[3][1])
                        + Cardinality(q[4][1]) = 10}
        squads == {[lineup |-> q[1][1] \cup q[2][1] \cup q[3][1] \cup q[4][1],
                    bench  |-> q[1][2] \cup q[2][2] \cup q[3][2] \cup q[4][2]]
                   : q \in raw}
    IN  {a \in squads : /\ BudgetConstraint(a, frame, budget)
                        /\ PositionConstraints(a, frame)
                        /\ TeamConstraints(a, frame)}

\* Lines 78-101 as LpProblem.__iadd__ meets them.  sum() over no rows is
\* Python's 0, not an expression of PuLP, and its comparison with a number
\* is a bool: "model += True" adds nothing and "model += False" raises
\* TypeError.  Each constraint with the rows it sums over and the bool it
\* is when there are none, in the order of the code.
constraint_sums(frame, budget) ==
    << [line |-> 78, rows |-> Rows(frame), at_zero |-> 0 <= budget],
       [line |-> 81, rows |-> RowsAt(frame, "GK"), at_zero |-> 0 = 1],
       [line |-> 82, rows |-> RowsAt(frame, "GK"), at_zero |-> 0 = 2],
       [line |-> 85, rows |-> RowsAt(frame, "DEF"), at_zero |-> 0 >= 3],
       [line |-> 86, rows |-> RowsAt(frame, "DEF"), at_zero |-> 0 = 5],
       [line |-> 89, rows |-> RowsAt(frame, "MID"), at_zero |-> 0 >= 2],
       [line |-> 90, rows |-> RowsAt(frame, "MID"), at_zero |-> 0 = 5],
       [line |-> 93, rows |-> RowsAt(frame, "FWD"), at_zero |-> 0 >= 1],
       [line |-> 94, rows |-> RowsAt(frame, "FWD"), at_zero |-> 0 = 3],
       [line |-> 97, rows |-> Rows(frame), at_zero |-> 0 = 11],
       [line |-> 98, rows |-> Rows(frame), at_zero |-> 0 = 4],
       [line |-> 99, rows |-> Rows(frame), at_zero |-> 0 = 15],
       [line |-> 100, rows |-> Rows(frame), at_zero |-> 0 = 1],
       [line |-> 101, rows |-> Rows(frame), at_zero |-> 0 = 1] >>

\* The line at which building the problem raises TypeError, the first whose
\* constraint is False; None when every constraint is added.
refused_line(frame, budget) ==
    LET refused == SelectSeq(constraint_sums(frame, budget),
                             LAMBDA c : c.rows = {} /\ ~c.at_zero)
    IN  IF refused = << >> THEN None ELSE refused[1].line

Maximum(S) ==
    LET negated == {0 - x : x \in S}
    IN  0 - (CHOOSE x \in negated : \A y \in negated : x <= y)

\* What model.solve() can leave in the variables of a problem it did not
\* solve: the code reads them whatever the status is, and nothing says which
\* of them hold the value 1.
UnsolvedValues(frame) ==
    [ lineup : SUBSET Rows(frame), bench : SUBSET Rows(frame),
      captaincy : SUBSET Rows(frame), vice_captaincy : SUBSET Rows(frame) ]

\* solve with the bench weight on the captain's points and the vice-captain's
\* points counted whole.
solve_weight_on_captain(frame, weight, budget) ==
    LET squads == FeasibleSquads(frame, budget)
        pairs(a) == {q \in a.lineup \X a.lineup :
                        CaptaincyConstraints(a, q[1], q[2])}
        bonus(p) == weight * frame[p[1]].total_points
                      + 100 * frame[p[2]].total_points
        value(a) ==
            100 * SumColumn(frame, a.lineup, "total_points", Len(frame))
            + weight * SumColumn(frame, a.bench, "total_points", Len(frame))
            + Maximum({bonus(p) : p \in pairs(a)})
        best == Maximum({value(a) : a \in squads})
    IN  IF refused_line(frame, budget) # None
        THEN {[raised |-> "TypeError", line |-> refused_line(frame, budget)]}
        ELSE IF squads = {}
        THEN {[status |-> "Infeasible", variables |-> x]
              : x \in UnsolvedValues(frame)}
        ELSE {[status |-> "Optimal",
               variables |-> [lineup |-> a.lineup, bench |-> a.bench,
                              captaincy |-> {p[1]},
                              vice_captaincy |-> {p[2]}]]
              : <<a, p>> \in
                  UNION {{<<y, q>> : q \in {r \in pairs(y) :
                              bonus(r) = Maximum({bonus(t) : t \in pairs(y)})}}
                         : y \in {z \in squads : value(z) = best}}}

\* Lines 53-112.  A constraint that is False stops the building of the
\* problem with a TypeError, and model.solve() is not reached.  Otherwise
\* model.solve() leaves an optimal assignment in the
\* variables and the status in the model; which assignment, among equals,
\* is the solver's choice.  No constraint ties the captaincy variables to
\* anything but the lineup, so the optimum is taken squad by squad: the best
\* captaincy of each squad, then the best squads.  With no feasible squad
\* the status says so and the variables hold what the solver left.
solve(frame, weight, budget) ==
    LET squads == FeasibleSquads(frame, budget)
        value(a) ==
            100 * SumColumn(frame, a.lineup, "total_points", Len(frame))
            + weight * SumColumn(frame, a.bench, "total_points", Len(frame))
            + Maximum({100 * frame[p[1]].total_points
                         + weight * frame[p[2]].total_points
                       : p \in {q \in a.lineup \X a.lineup :
                                   CaptaincyConstraints(a, q[1], q[2])}})
        best == Maximum({value(a) : a \in squads})
        assignments(a) ==
            {[lineup |-> a.lineup, bench |-> a.bench,
              captaincy |-> {p[1]}, vice_captaincy |-> {p[2]}]
             : p \in {q \in a.lineup \X a.lineup :
                         CaptaincyConstraints(a, q[1], q[2])}}
    IN  IF refused_line(frame, budget) # None
        THEN {[raised |-> "TypeError", line |-> refused_line(frame, budget)]}
        ELSE IF squads = {}
        THEN {[status |-> "Infeasible", variables |-> x]
              : x \in UnsolvedValues(frame)}
        ELSE {[status |-> "Optimal", variables |-> x]
              : x \in UNION {{x \in assignments(a) :
                                 Objective(x, frame, weight) = best}
                             : a \in {y \in squads : value(y) = best}}}

\* Lines 31-114: the four lists of variables are returned, the status is
\* not; an exception of lines 78-101 leaves the function as it is.
basic_set_and_forget(frame, weight, budget) ==
    {IF "raised" \in DOMAIN model THEN model ELSE model.variables
     : model \in solve(frame, weight, budget)}

-----------------------------------------------------------------------------
(* Squads and gameweek data the scorer is run on *)

\* The lineup shapes the optimizer's constraints allow (lines 81-98): one
\* goalkeeper and ten outfield starters, DEF >= 3, MID >= 2, FWD >= 1, out
\* of a squad of 5 DEF, 5 MID and 3 FWD.
Formations ==
    {f \in [Outfield -> 1..5] :
        /\ f["DEF"] >= 3 /\ f["MID"] >= 2 /\ f["FWD"] >= 1 /\ f["FWD"] <= 3
        /\ f["DEF"] + f["MID"] + f["FWD"] = 10}

\* The positions of the starters that did not feature, in lineup order: at
\* most MaxAbsent of them, the goalkeeper (if absent) first, then outfield
\* starters in any order of positions the formation has.
AbsentStarters(f) ==
    UNION {{keeper \o p : p \in {q \in [1..k -> Outfield] :
                                    \A x \in Outfield : Count(q, x) <= f[x]}}
           : <<keeper, k>> \in {kk \in {<< >>, <<"GK">>} \X (0..MaxAbsent) :
                                    Len(kk[1]) + kk[2] <= MaxAbsent}}

\* Lineup rows: the non-featuring starters first (their relative order is
\* all the scorer's loop depends on), then the featuring ones.
LineupPositions(f, absent) ==
    absent \o Rep("GK", 1 - Count(absent, "GK"))
           \o Rep("DEF", f["DEF"] - Count(absent, "DEF"))
           \o Rep("MID", f["MID"] - Count(absent, "MID"))
           \o Rep("FWD", f["FWD"] - Count(absent, "FWD"))

\* Every order of the three outfield bench players of the squad.
BenchOrders(f) ==
    {b \in [1..3 -> Outfield] :
        /\ Count(b, "DEF") = 5 - f["DEF"]
        /\ Count(b, "MID") = 5 - f["MID"]
        /\ Count(b, "FWD") = 3 - f["FWD"]}

\* Points per row and the minutes of the bench, two gameweeks' worth of
\* shapes: distinct positive points with a bench that featured, and points
\* of both signs (zero included) with a bench that did not.
Profiles ==
    { [points |-> [i \in 1..15 |-> 2 ^ (i - 1)], bench_minutes |-> 90],
      [points |-> [i \in 1..15 |-> ((3 * i) % 7) - 3], bench_minutes |-> 0] }

\* Rows 1..11 are the lineup, row 12 the bench goalkeeper, rows 13..15 the
\* outfield bench in bench order; n is the number of gameweek columns.
SquadFrame(f, absent, bench, c, v, profile, n) ==
    LET lineup == LineupPositions(f, absent)
    IN  [i \in 1..15 |->
          [ id              |-> i,
            positions       |-> IF i <= 11 THEN lineup[i]
                                ELSE IF i = 12 THEN "GK" ELSE bench[i - 12],
            in_lineup       |-> i <= 11,
            on_bench        |-> i > 11,
            is_captain      |-> i = c,
            is_vice_captain |-> i = v,
            points          |-> Rep(profile.points[i], n),
            minutes         |-> Rep(IF i > 11 THEN profile.bench_minutes
                                    ELSE IF i <= Len(absent) THEN 0
                                    ELSE IF i % 2 = 0 THEN 90 ELSE 1, n) ]]

-----------------------------------------------------------------------------
(* The Gameweek Scorer as a state machine: one call of                     *)
(* single_gw_simulation(gw, df)                                            *)

\* The function is entered with the first gameweek, as simulate_model_team
\* calls it, or with the gameweek after the current one.  Line 378 is the
\* only call of the closure in the program and passes it
\* range(1, current_gw + 1), so the second call is one the program does not
\* make: it is here for the branch of lines 247-249 the function has.
Init ==
    /\ pc = "start"
    /\ gw \in {1, 2}
    /\ current_gw = 1
    /\ \E f \in Formations :
         \E absent \in AbsentStarters(f), bench \in BenchOrders(f),
            c \in {1, 11}, v \in {2, 10}, profile \in Profiles :
             df = SquadFrame(f, absent, bench, c, v, profile, current_gw)
    /\ sim = [team_gameweek_points |-> 0]
    /\ next_player = 1
    /\ result = None
    /\ player_gameweek_df = << >>
    /\ search = None
    /\ captaincy = None
    /\ main = None
    /\ optimizer = None
    /\ season = None

\* Lines 247-249: a gameweek that has not been played yet.
ReturnZero ==
    /\ pc = "start"
    /\ gw > current_gw
    /\ result' = sim.team_gameweek_points
    /\ pc' = "done"
    /\ UNCHANGED <<current_gw, df, gw, sim, next_player>>
    /\ UNCHANGED driver_vars

\* ScoreStarters with bench_player_ids one list for the whole season, kept
\* outside the scorer: who came on in an earlier gameweek is gone from it.
ScoreStarters_shared_bench ==
    /\ pc = "start"
    /\ ~(gw > current_gw)
    /\ LET used == UNION {{season.points_by_gw[k][k].subs_made[m].sub_in
                            : m \in 1..Len(season.points_by_gw[k][k].subs_made)}
                          : k \in 1..Len(season.points_by_gw)}
           locals == gw_locals(df)
       IN  sim' = score_starters(
                      [locals EXCEPT !.bench_player_ids =
                                        SelectSeq(@, LAMBDA id : id \notin used)],
                      gw, df)
    /\ pc' = "captaincy"
    /\ UNCHANGED <<current_gw, df, gw, next_player, result>>
    /\ UNCHANGED driver_vars

\* Lines 251-273.
ScoreStarters ==
    /\ pc = "start"
    /\ ~(gw > current_gw)
    /\ sim' = score_starters(gw_locals(df), gw, df)
    /\ pc' = "captaincy"
    /\ UNCHANGED <<current_gw, df, gw, next_player, result>>
    /\ UNCHANGED driver_vars

\* Lines 275-288.
CaptaincyBonus ==
    /\ pc = "captaincy"
    /\ sim' = captaincy_bonus(sim, gw, df)
    /\ next_player' = 1
    /\ pc' = "substitutions"
    /\ UNCHANGED <<current_gw, df, gw, result>>
    /\ UNCHANGED driver_vars

\* Lines 292-365, one non-featuring starter.
Substitute ==
    /\ pc = "substitutions"
    /\ next_player <= Len(sim.player_not_played)
    /\ sim' = attempt_substitution(sim, gw, df,
                                   sim.player_not_played[next_player])
    /\ next_player' = next_player + 1
    /\ UNCHANGED <<pc, current_gw, df, gw, result>>
    /\ UNCHANGED driver_vars

\* Lines 367-374.
Return ==
    /\ pc = "substitutions"
    /\ next_player > Len(sim.player_not_played)
    /\ result' = return_dic(sim)
    /\ pc' = "done"
    /\ UNCHANGED <<current_gw, df, gw, sim, next_player>>
    /\ UNCHANGED driver_vars

Next == ReturnZero \/ ScoreStarters \/ CaptaincyBonus \/ Substitute \/ Return

Spec == Init /\ [][Next]_vars

-----------------------------------------------------------------------------
(* fpl_data_retrieval.player_gameweek_data and all_player_data: the frame  *)
(* of all players, one row per player, built from what the API returns     *)

\* The last gameweek asked for (line 605; a season has 38).
max_gameweek == 2

\* A league of 17 players: four goalkeepers, five defenders, five
\* midfielders and three forwards.
PlayerPositions ==
    <<"GK", "GK", "GK", "GK", "DEF", "DEF", "DEF", "DEF", "DEF",
      "MID", "MID", "MID", "MID", "MID", "FWD", "FWD", "FWD">>

PlayerCost ==
    <<130, 90, 90, 50, 61, 61, 61, 61, 61, 61, 61, 61, 61, 61, 61, 61, 61>>

\* What each player scores in a gameweek he plays in, gameweek by gameweek.
PlayerPoints ==
    << <<6, 5, 4, 1,  6, 5, 4, 3, 1,  7, 6, 5, 4, 3,  8, 3, 2>>,
       <<4, 4, 4, 0,  6, 5, 4, 3, 1,  7, 5, 4, 3, 0,  7, 2, 2>> >>

\* Who misses which gameweek (<<player, gameweek>>), a few seasons' worth.
Absences ==
    { {<<10, 1>>, <<5, 2>>},
      {<<1, 1>>, <<15, 2>>, <<6, 2>>},
      {<<15, 1>>, <<11, 1>>, <<1, 2>>},
      {<<5, 1>>, <<6, 1>>, <<15, 2>>, <<10, 2>>} }

\* The data the API serves: the sign of the scores and who was absent.
Leagues == [sign : {1, -1}, absent : Absences]

\* Lines 96-106: a gameweek's points and minutes of player i.
gameweek_points(league, i, g) ==
    IF <<i, g>> \in league.absent THEN 0
    ELSE league.sign * PlayerPoints[((g - 1) % Len(PlayerPoints)) + 1][i]

gameweek_minutes(league, i, g) ==
    IF <<i, g>> \in league.absent THEN 0 ELSE 90

\* fpl_data_retrieval.py lines 55-111.
player_gameweek_data(start_gameweek, end_gameweek, league) ==
    [i \in 1..Len(PlayerPositions) |->
        LET points == [g \in start_gameweek..end_gameweek |->
                           gameweek_points(league, i, g)]
        IN  [ id           |-> 20 + i,
              positions    |-> PlayerPositions[i],
              short_name   |-> i % 6,
              start_cost   |-> PlayerCost[i],
              total_points |-> SumSeq(points),
              points       |-> points,
              minutes      |-> [g \in start_gameweek..end_gameweek |->
                                   gameweek_minutes(league, i, g)] ]]

\* Lines 7-29: no gameweek after the current one is asked for.
all_player_data(start_gameweek, end_gameweek, league, cur) ==
    player_gameweek_data(start_gameweek,
                         IF end_gameweek > cur THEN cur ELSE end_gameweek,
                         league)

-----------------------------------------------------------------------------
(* retrieve_base_id, retrieve_refactored_model_output,                     *)
(* retrieve_model_gameweek_history                                         *)

\* str(n) of a positive integer: its decimal digits.
RECURSIVE Decimal(_)
Decimal(n) == IF n < 10 THEN <<n>> ELSE Append(Decimal(n \div 10), n % 10)

\* Lines 56-72: the name f"lineup_{i}" of a decision variable, the prefix
\* (which holds no digit) and the digits of the id.
variable_name(prefix, id) == [prefix |-> prefix, digits |-> Decimal(id)]

\* int() of a string of digits.
RECURSIVE FromDecimal(_)
FromDecimal(digits) ==
    IF Len(digits) = 0 THEN 0
    ELSE 10 * FromDecimal(SubSeq(digits, 1, Len(digits) - 1))
            + digits[Len(digits)]

\* Lines 116-130: the digits of the name, as an integer.
retrieve_base_id(decision_var) == FromDecimal(decision_var.digits)

\* The elements of a list.
Elems(list) == {list[i] : i \in 1..Len(list)}

\* Lines 132-173: for each kind of variable, the ids of the variables whose
\* value is 1, in row order.
retrieve_refactored_model_output(a, frame) ==
    LET selected(prefix, rows) ==
            LET chosen == SelectSeq([i \in 1..Len(frame) |-> i],
                                    LAMBDA i : i \in rows)
            IN  [k \in 1..Len(chosen) |->
                    retrieve_base_id(variable_name(prefix, frame[chosen[k]].id))]
    IN  [ lineup         |-> selected("lineup_", a.lineup),
          bench          |-> selected("bench_", a.bench),
          captaincy      |-> selected("captaincy_", a.captaincy),
          vice_captaincy |-> selected("vice_captaincy_", a.vice_captaincy) ]

\* Lines 186-189: the four flag columns are written into the frame of all
\* players itself.
flag_players(model_output, frame) ==
    [i \in 1..Len(frame) |->
        [ id              |-> frame[i].id,
          positions       |-> frame[i].positions,
          short_name      |-> frame[i].short_name,
          start_cost      |-> frame[i].start_cost,
          total_points    |-> frame[i].total_points,
          points          |-> frame[i].points,
          minutes         |-> frame[i].minutes,
          in_lineup       |-> frame[i].id \in Elems(model_output.lineup),
          on_bench        |-> frame[i].id \in Elems(model_output.bench),
          is_captain      |-> frame[i].id \in Elems(model_output.captaincy),
          is_vice_captain |->
              frame[i].id \in Elems(model_output.vice_captaincy) ]]

\* Lines 175-196: the frame of all players with the flags written, and the
\* rows of the selected players (a new frame).
retrieve_model_gameweek_history(model_output, frame) ==
    LET flagged == flag_players(model_output, frame)
        player_ids == model_output.lineup \o model_output.bench
                        \o model_output.captaincy \o model_output.vice_captaincy
    IN  [ player_gameweek_df |-> flagged,
          model_players_df   |->
              SelectSeq(flagged, LAMBDA r : r.id \in Elems(player_ids)) ]

-----------------------------------------------------------------------------
(* Lists and frames *)

\* Python's None where a list or a list of dicts is expected: a team order
\* has fifteen ids and a simulated season an entry per completed gameweek,
\* so neither is ever the empty list.
NoneList == << >>

\* list[:k - 1] + list[k:], 1-based.
without(list, k) == SubSeq(list, 1, k - 1) \o SubSeq(list, k + 1, Len(list))

RECURSIVE Concat(_)
Concat(lists) == IF Len(lists) = 0 THEN << >>
                 ELSE lists[1] \o Concat(Tail(lists))

\* list(itertools.permutations(list)): in lexicographic order of positions.
RECURSIVE permutations(_)
permutations(list) ==
    IF Len(list) = 0 THEN << << >> >>
    ELSE Concat([k \in 1..Len(list) |->
                    LET rest == permutations(without(list, k))
                    IN  [j \in 1..Len(rest) |-> <<list[k]>> \o rest[j]]])

\* list(itertools.permutations(list, 2)).
permutations_2(list) ==
    Concat([k \in 1..Len(list) |->
               LET rest == without(list, k)
               IN  [j \in 1..Len(rest) |-> <<list[k], rest[j]>>]])

\* Lines 476-479, 526-529, 597-599: the rows sorted by the position of
\* their id in team_order (an ordered categorical); ids that are not in
\* team_order have no category and sort last, in row order.
sort_values_bench_order(frame, team_order) ==
    LET listed == SelectSeq(team_order, LAMBDA id : id \in Elems(Ids(frame)))
    IN  [k \in 1..Len(listed) |-> RowOf(frame, listed[k])]
        \o SelectSeq(frame, LAMBDA r : r.id \notin Elems(team_order))

\* Lines 574-601.
order_df(frame) ==
    LET lineup_ids == Ids(SelectSeq(frame, LAMBDA r : r.in_lineup))
        bench_ids  == Ids(SelectSeq(frame, LAMBDA r : ~r.in_lineup))
        at(pos) == SelectSeq(lineup_ids,
                       LAMBDA id : id \in Elems(Ids(SelectSeq(frame,
                                       LAMBDA r : r.positions = pos))))
        ordered_lineup_ids ==
            at("GK") \o at("DEF") \o at("MID") \o at("FWD") \o bench_ids
    IN  sort_values_bench_order(frame, ordered_lineup_ids)

-----------------------------------------------------------------------------
(* find_optimal_weighting_and_ordering(player_gameweek_df, weights_array)  *)
(* as a state machine: one step per solved weight and per bench order      *)

\* Largest number of bench weights tried (line 636 lists 19).
MaxWeights == 2

\* Line 636, in hundredths: 0.05, 0.1, 0.15, ...
weights_to_test == [k \in 1..MaxWeights |-> 5 * k]

\* The locals of a call that has not started on its first weight.
search_locals(weights_array) ==
    [ weights_array            |-> weights_array,
      weight                   |-> 1,
      model_players_df         |-> << >>,
      lineup_players           |-> << >>,
      bench_players            |-> << >>,
      bench_gk                 |-> << >>,
      players_bench_orders     |-> << >>,
      bench_order              |-> 1,
      best_total_points        |-> 0,
      best_team_order          |-> NoneList,
      best_simulated_season    |-> NoneList,
      best_weights_bench_order |-> << >> ]

\* The state of the scorer's variables while the searches run.
scorer_idle ==
    /\ df = << >>
    /\ gw = 0
    /\ sim = [team_gameweek_points |-> 0]
    /\ next_player = 1
    /\ result = None

\* A completed season is searched: the frame of all players holds the
\* gameweeks up to the current one.
InitPhase1 ==
    /\ pc = "search_weight"
    /\ current_gw = max_gameweek
    /\ \E league \in Leagues :
          player_gameweek_df =
              all_player_data(1, max_gameweek, league, current_gw)
    /\ search = search_locals(weights_to_test)
    /\ captaincy = None
    /\ main = None
    /\ optimizer = None
    /\ season = None
    /\ scorer_idle

\* Lines 447-469: the squad of the next weight and the bench orders to try.
\* The frame of all players holds every position, so the problem is built.
SearchSolve ==
    /\ pc = "search_weight"
    /\ search.weight <= Len(search.weights_array)
    /\ refused_line(player_gameweek_df, 1000) = None
    /\ \E a \in basic_set_and_forget(player_gameweek_df,
                                     search.weights_array[search.weight], 1000) :
          LET model_output ==
                  retrieve_refactored_model_output(a, player_gameweek_df)
              history ==
                  retrieve_model_gameweek_history(model_output,
                                                  player_gameweek_df)
              model_players_df == history.model_players_df
              bench_players ==
                  Ids(SelectSeq(model_players_df,
                          LAMBDA r : r.on_bench /\ r.positions # "GK"))
          IN  /\ player_gameweek_df' = history.player_gameweek_df
              /\ search' =
                   [search EXCEPT
                      !.model_players_df = model_players_df,
                      !.lineup_players =
                          Ids(SelectSeq(model_players_df,
                                        LAMBDA r : r.in_lineup)),
                      !.bench_players = bench_players,
                      !.bench_gk =
                          Ids(SelectSeq(model_players_df,
                                LAMBDA r : r.on_bench /\ r.positions = "GK")),
                      !.players_bench_orders = permutations(bench_players),
                      !.bench_order = 1,
                      !.best_total_points = 0,
                      !.best_team_order = NoneList,
                      !.best_simulated_season = NoneList]
    /\ pc' = "search_order"
    /\ UNCHANGED <<current_gw, captaincy, main>>
    /\ UNCHANGED scorer_vars
    /\ UNCHANGED call_vars

\* Lines 472-496: one bench order is simulated and kept if it beats the
\* best so far.
SearchTryOrder ==
    /\ pc = "search_order"
    /\ search.bench_order <= Len(search.players_bench_orders)
    /\ LET bench_order == search.players_bench_orders[search.bench_order]
           team_order == search.lineup_players \o search.bench_gk \o bench_order
           sorted_players_df ==
               sort_values_bench_order(search.model_players_df, team_order)
           simulated_season == simulate_model_team(sorted_players_df, current_gw)
           total_points == season_total(simulated_season)
       IN  search' =
             IF total_points > search.best_total_points
             THEN [search EXCEPT !.bench_order = @ + 1,
                                 !.best_total_points = total_points,
                                 !.best_team_order = team_order,
                                 !.best_simulated_season = simulated_season]
             ELSE [search EXCEPT !.bench_order = @ + 1]
    /\ UNCHANGED <<pc, current_gw, player_gameweek_df, captaincy, main>>
    /\ UNCHANGED scorer_vars
    /\ UNCHANGED call_vars

\* Lines 499-507: the weight's best order is recorded.
SearchAppend ==
    /\ pc = "search_order"
    /\ search.bench_order > Len(search.players_bench_orders)
    /\ search' =
         [search EXCEPT
            !.best_weights_bench_order =
                Append(@, [ weight |-> search.weights_array[search.weight],
                            best_team_order |-> search.best_team_order,
                            best_total_points |-> search.best_total_points,
                            best_simulated_season |->
                                search.best_simulated_season ]),
            !.weight = @ + 1]
    /\ pc' = "search_weight"
    /\ UNCHANGED <<current_gw, player_gameweek_df, captaincy, main>>
    /\ UNCHANGED scorer_vars
    /\ UNCHANGED call_vars

\* Line 510.
SearchReturn ==
    /\ pc = "search_weight"
    /\ search.weight > Len(search.weights_array)
    /\ pc' = "search_returned"
    /\ UNCHANGED <<current_gw, player_gameweek_df, search, captaincy, main>>
    /\ UNCHANGED scorer_vars
    /\ UNCHANGED call_vars

NextPhase1 == SearchSolve \/ SearchTryOrder \/ SearchAppend \/ SearchReturn

SpecPhase1 == InitPhase1 /\ [][NextPhase1]_vars

-----------------------------------------------------------------------------
(* best_captain_vice_captain(model_players_df, result) as a state machine: *)
(* one step per captaincy pair                                             *)

\* A dict of find_optimal_weighting_and_ordering's list where main holds
\* None.
NoneResult ==
    [ weight |-> None, best_team_order |-> NoneList,
      best_total_points |-> 0, best_simulated_season |-> NoneList ]

\* The locals of a call that has just been made.
captaincy_locals(model_players_df, result_dict) ==
    [ model_players_df       |-> model_players_df,
      result                 |-> result_dict,
      sorted_players_df      |-> << >>,
      all_captaincy_pairs    |-> << >>,
      count                  |-> 1,
      best_captain           |-> None,
      best_vice_captain      |-> None,
      best_pair_total_points |-> 0,
      final_return_df        |-> << >> ]

\* The squads the search is called on directly: every lineup shape, no or
\* one starter who missed the season, points of either profile, as they
\* are, all zero or negated, and the bench as it stands or reversed.
CaptaincyInputs ==
    UNION {{[f |-> f, absent |-> absent, profile |-> profile,
             scale |-> scale, reversed |-> reversed]
            : absent \in {x \in AbsentStarters(f) : Len(x) <= 1},
              profile \in Profiles, scale \in {1, 0, -1},
              reversed \in BOOLEAN}
           : f \in Formations}

\* The frame of an input: the squad with the flags some earlier captaincy
\* left on rows 11 and 10, and a column pair per gameweek.
captaincy_frame(input) ==
    SquadFrame(input.f, input.absent,
               CHOOSE b \in BenchOrders(input.f) : TRUE,
               11, 10,
               [points |-> [i \in 1..15 |->
                               input.scale * input.profile.points[i]],
                bench_minutes |-> input.profile.bench_minutes],
               max_gameweek)

\* The team order Phase 1 hands over: lineup, bench goalkeeper, and the
\* outfield bench in one of its orders.
captaincy_team_order(input) ==
    IF input.reversed
    THEN <<1, 2, 3, 4, 5, 6, 7, 8, 9, 10, 11, 12, 15, 14, 13>>
    ELSE <<1, 2, 3, 4, 5, 6, 7, 8, 9, 10, 11, 12, 13, 14, 15>>

InitPhase2 ==
    /\ pc = "captaincy_call"
    /\ current_gw = max_gameweek
    /\ \E input \in CaptaincyInputs :
          captaincy =
              captaincy_locals(
                  captaincy_frame(input),
                  [ weight |-> 15,
                    best_team_order |-> captaincy_team_order(input),
                    best_total_points |-> 0,
                    best_simulated_season |-> NoneList ])
    /\ player_gameweek_df = << >>
    /\ search = None
    /\ main = None
    /\ optimizer = None
    /\ season = None
    /\ scorer_idle

\* Lines 523-539: the squad in team order and the pairs to try.  Indexing
\* None raises TypeError.
CaptaincySort ==
    /\ pc = "captaincy_call"
    /\ IF captaincy.result.weight = None
       THEN /\ pc' = "raised"
            /\ UNCHANGED captaincy
       ELSE LET team_order == captaincy.result.best_team_order
                sorted_players_df ==
                    sort_values_bench_order(captaincy.model_players_df,
                                            team_order)
                starting_lineup_ids ==
                    Ids(SelectSeq(sorted_players_df, LAMBDA r : r.in_lineup))
            IN  /\ captaincy' =
                     [captaincy EXCEPT
                        !.sorted_players_df = sorted_players_df,
                        !.all_captaincy_pairs =
                            permutations_2(starting_lineup_ids),
                        !.count = 1,
                        !.best_captain = None,
                        !.best_vice_captain = None,
                        !.best_pair_total_points = 0]
                /\ pc' = "captaincy_pair"
    /\ UNCHANGED <<current_gw, player_gameweek_df, search, main>>
    /\ UNCHANGED scorer_vars
    /\ UNCHANGED call_vars

\* Lines 545-550: both flags are cleared, then both are set on every row
\* whose id is in the pair.
captaincy_check(sorted_players_df, captaincy_pair) ==
    [i \in 1..Len(sorted_players_df) |->
        [sorted_players_df[i] EXCEPT
            !.is_captain = sorted_players_df[i].id \in Elems(captaincy_pair),
            !.is_vice_captain =
                sorted_players_df[i].id \in Elems(captaincy_pair)]]

\* Lines 542-562: one pair is simulated and kept if it beats the best so
\* far.
CaptaincyTryPair ==
    /\ pc = "captaincy_pair"
    /\ captaincy.count <= Len(captaincy.all_captaincy_pairs)
    /\ LET captaincy_pair == captaincy.all_captaincy_pairs[captaincy.count]
           captaincy_check_df ==
               captaincy_check(captaincy.sorted_players_df, captaincy_pair)
           simulated_season ==
               simulate_model_team(captaincy_check_df, current_gw)
           total_points == season_total(simulated_season)
       IN  captaincy' =
             IF total_points > captaincy.best_pair_total_points
             THEN [captaincy EXCEPT !.count = @ + 1,
                                    !.best_pair_total_points = total_points,
                                    !.best_captain = captaincy_pair[1],
                                    !.best_vice_captain = captaincy_pair[2]]
             ELSE [captaincy EXCEPT !.count = @ + 1]
    /\ UNCHANGED <<pc, current_gw, player_gameweek_df, search, main>>
    /\ UNCHANGED scorer_vars
    /\ UNCHANGED call_vars

\* Lines 565-569: the flags of the frame that is returned.
final_return(sorted_players_df, best_captain, best_vice_captain) ==
    [i \in 1..Len(sorted_players_df) |->
        [sorted_players_df[i] EXCEPT
            !.is_captain = sorted_players_df[i].id = best_captain,
            !.is_vice_captain = sorted_players_df[i].id = best_vice_captain]]

\* Lines 564-572.
CaptaincyReturn ==
    /\ pc = "captaincy_pair"
    /\ captaincy.count > Len(captaincy.all_captaincy_pairs)
    /\ captaincy' =
         [captaincy EXCEPT
            !.final_return_df =
                final_return(captaincy.sorted_players_df,
                             captaincy.best_captain,
                             captaincy.best_vice_captain)]
    /\ pc' = "captaincy_returned"
    /\ UNCHANGED <<current_gw, player_gameweek_df, search, main>>
    /\ UNCHANGED scorer_vars
    /\ UNCHANGED call_vars

NextPhase2 == CaptaincySort \/ CaptaincyTryPair \/ CaptaincyReturn

SpecPhase2 == InitPhase2 /\ [][NextPhase2]_vars

-----------------------------------------------------------------------------
(* The __main__ block as a state machine *)

main_locals ==
    [ model_players_df      |-> << >>,
      simulated_season      |-> NoneList,
      total_points          |-> 0,
      results               |-> << >>,
      result                |-> 1,
      most_points           |-> 0,
      most_point_simulation |-> NoneResult,
      final_optimised_df    |-> << >>,
      optimised_season_simulation |-> NoneList ]

InitMain ==
    /\ pc = "main"
    /\ current_gw = max_gameweek
    /\ \E league \in Leagues :
          player_gameweek_df =
              all_player_data(1, max_gameweek, league, current_gw)
    /\ search = search_locals(<< >>)
    /\ captaincy = captaincy_locals(<< >>, NoneResult)
    /\ main = main_locals
    /\ optimizer = None
    /\ season = None
    /\ scorer_idle

\* Lines 609-623: the squad of weight 0.15, its rows and its season.  The
\* frame of all players holds every position, so the problem is built.
MainBaseSolve ==
    /\ pc = "main"
    /\ refused_line(player_gameweek_df, 1000) = None
    /\ \E a \in basic_set_and_forget(player_gameweek_df, 15, 1000) :
          LET model_output ==
                  retrieve_refactored_model_output(a, player_gameweek_df)
              history ==
                  retrieve_model_gameweek_history(model_output,
                                                  player_gameweek_df)
              simulated_season ==
                  simulate_model_team(history.model_players_df, current_gw)
          IN  /\ player_gameweek_df' = history.player_gameweek_df
              /\ main' = [main EXCEPT
                            !.model_players_df = history.model_players_df,
                            !.simulated_season = simulated_season,
                            !.total_points = season_total(simulated_season)]
    /\ pc' = "main_prompt"
    /\ UNCHANGED <<current_gw, search, captaincy>>
    /\ UNCHANGED scorer_vars
    /\ UNCHANGED call_vars

\* Lines 633-635: the answer is not Y.
MainDecline ==
    /\ pc = "main_prompt"
    /\ pc' = "main_done"
    /\ UNCHANGED <<current_gw, player_gameweek_df, search, captaincy, main>>
    /\ UNCHANGED scorer_vars
    /\ UNCHANGED call_vars

\* Lines 635-638: the answer is Y and the search is called.
MainSearch ==
    /\ pc = "main_prompt"
    /\ search' = search_locals(weights_to_test)
    /\ pc' = "search_weight"
    /\ UNCHANGED <<current_gw, player_gameweek_df, captaincy, main>>
    /\ UNCHANGED scorer_vars
    /\ UNCHANGED call_vars

\* Lines 638, 644-645: the list the search returned is walked.
MainResults ==
    /\ pc = "search_returned"
    /\ main' = [main EXCEPT !.results = search.best_weights_bench_order,
                            !.result = 1,
                            !.most_points = 0,
                            !.most_point_simulation = NoneResult]
    /\ pc' = "main_results"
    /\ UNCHANGED <<current_gw, player_gameweek_df, search, captaincy>>
    /\ UNCHANGED scorer_vars
    /\ UNCHANGED call_vars

\* Lines 647-653: one entry of the list.  Slicing a best_team_order that is
\* None raises TypeError.
MainMostPoints ==
    /\ pc = "main_results"
    /\ main.result <= Len(main.results)
    /\ LET entry == main.results[main.result]
       IN  IF entry.best_team_order = NoneList
           THEN /\ pc' = "raised"
                /\ UNCHANGED main
           ELSE /\ main' =
                     IF entry.best_total_points > main.most_points
                     THEN [main EXCEPT
                             !.result = @ + 1,
                             !.most_points = entry.best_total_points,
                             !.most_point_simulation = entry]
                     ELSE [main EXCEPT !.result = @ + 1]
                /\ UNCHANGED pc
    /\ UNCHANGED <<current_gw, player_gameweek_df, search, captaincy>>
    /\ UNCHANGED scorer_vars
    /\ UNCHANGED call_vars

\* Line 656: best_captain_vice_captain is called on the rows of the squad
\* of line 614 and on the entry with the most points.
MainCaptaincy ==
    /\ pc = "main_results"
    /\ main.result > Len(main.results)
    /\ captaincy' = captaincy_locals(main.model_players_df,
                                     main.most_point_simulation)
    /\ pc' = "captaincy_call"
    /\ UNCHANGED <<current_gw, player_gameweek_df, search, main>>
    /\ UNCHANGED scorer_vars
    /\ UNCHANGED call_vars

\* Lines 656-661: the returned frame is ordered by position and simulated
\* once more.  A frame without a captain or a vice-captain makes the scorer
\* raise IndexError.
MainFinal ==
    /\ pc = "captaincy_returned"
    /\ LET final_optimised_df == order_df(captaincy.final_return_df)
       IN  IF \/ \A i \in 1..Len(final_optimised_df) :
                    ~final_optimised_df[i].is_captain
              \/ \A i \in 1..Len(final_optimised_df) :
                    ~final_optimised_df[i].is_vice_captain
           THEN /\ main' = [main EXCEPT
                              !.final_optimised_df = final_optimised_df]
                /\ pc' = "raised"
           ELSE /\ main' = [main EXCEPT
                              !.final_optimised_df = final_optimised_df,
                              !.optimised_season_simulation =
                                  simulate_model_team(final_optimised_df,
                                                      current_gw)]
                /\ pc' = "main_done"
    /\ UNCHANGED <<current_gw, player_gameweek_df, search, captaincy>>
    /\ UNCHANGED scorer_vars
    /\ UNCHANGED call_vars

NextMain ==
    \/ MainBaseSolve \/ MainDecline \/ MainSearch
    \/ SearchSolve \/ SearchTryOrder \/ SearchAppend \/ SearchReturn
    \/ MainResults \/ MainMostPoints \/ MainCaptaincy
    \/ CaptaincySort \/ CaptaincyTryPair \/ CaptaincyReturn
    \/ MainFinal

SpecMain == InitMain /\ [][NextMain]_vars

-----------------------------------------------------------------------------
(* The searches when the evaluation of a candidate fails.  Every call of   *)
(* simulate_model_team asks the API for the current gameweek (line 200:    *)
(* get_current_gameweek(get_fpl_data()), a request that can raise), and    *)
(* neither loop has an exception handler.                                  *)

\* Lines 472-484 and 200: the simulation of a bench order raises, and the
\* exception leaves find_optimal_weighting_and_ordering.
SearchTryOrderRaises ==
    /\ pc = "search_order"
    /\ search.bench_order <= Len(search.players_bench_orders)
    /\ pc' = "raised"
    /\ UNCHANGED <<current_gw, player_gameweek_df, search, captaincy, main>>
    /\ UNCHANGED scorer_vars
    /\ UNCHANGED call_vars

\* Lines 542-553 and 200: the simulation of a captaincy pair raises, and
\* the exception leaves best_captain_vice_captain.
CaptaincyTryPairRaises ==
    /\ pc = "captaincy_pair"
    /\ captaincy.count <= Len(captaincy.all_captaincy_pairs)
    /\ pc' = "raised"
    /\ UNCHANGED <<current_gw, player_gameweek_df, search, captaincy, main>>
    /\ UNCHANGED scorer_vars
    /\ UNCHANGED call_vars

InitSearches == InitPhase1 \/ InitPhase2

NextSearches ==
    \/ NextPhase1 \/ SearchTryOrderRaises
    \/ NextPhase2 \/ CaptaincyTryPairRaises

SpecSearches == InitSearches /\ [][NextSearches]_vars

-----------------------------------------------------------------------------
(* The optimizer pipeline on its own: basic_set_and_forget,                *)
(* retrieve_refactored_model_output and retrieve_model_gameweek_history,   *)
(* as lines 610-614 and 450-456 call them                                  *)

\* The locals of a call that has not solved yet: the bench multiplier in
\* hundredths, the budget, the status of the PuLP model, the rows whose
\* variables hold 1 and the dict of ids read from them.
optimizer_locals(bench_multiplier, budget) ==
    [ bench_multiplier |-> bench_multiplier,
      budget           |-> budget,
      status           |-> "Not Solved",
      variables        |-> [ lineup |-> {}, bench |-> {},
                             captaincy |-> {}, vice_captaincy |-> {} ],
      model_output     |-> [ lineup |-> << >>, bench |-> << >>,
                             captaincy |-> << >>, vice_captaincy |-> << >> ],
      model_players_df |-> << >> ]

\* The player universes, budgets and weights the pipeline is run on: every
\* league as it is; a league whose players come from five clubs, so that
\* the club cap decides; a lower budget; a universe of one player of each
\* position, which holds no squad; and universes of two goalkeepers, which
\* have no row for the other positions' constraints to sum over.  players
\* are the players of the league the universe holds.
OptimizerInputs ==
    LET few == {league \in Leagues : Cardinality(league.absent) = 2}
        all == [i \in 1..Len(PlayerPositions) |-> i]
        one_each == <<1, 5, 10, 15>>
        keepers == <<1, 2>>
        weights == {weights_to_test[1], 15}
    IN  [league : Leagues, clubs : {6}, budget : {1000},
         weight : weights, players : {all}]
        \cup [league : few, clubs : {5}, budget : {1000},
              weight : weights, players : {all}]
        \cup [league : few, clubs : {6}, budget : {940},
              weight : weights, players : {all}]
        \cup [league : {league \in few : league.sign = 1}, clubs : {6},
              budget : {1000}, weight : {15}, players : {one_each}]
        \cup [league : few, clubs : {6}, budget : {1000, 0},
              weight : {15}, players : {keepers}]

\* The frame of all players of an input: the players of the league it
\* names, each in the club the input puts him in, indexed from the first
\* row on.
optimizer_frame(input) ==
    LET frame == all_player_data(1, max_gameweek, input.league, max_gameweek)
    IN  [i \in 1..Len(input.players) |->
            [frame[input.players[i]]
                EXCEPT !.short_name = input.players[i] % input.clubs]]

InitOptimizer ==
    /\ pc = "optimizer_call"
    /\ current_gw = max_gameweek
    /\ \E input \in OptimizerInputs :
          /\ player_gameweek_df = optimizer_frame(input)
          /\ optimizer = optimizer_locals(input.weight, input.budget)
    /\ season = None
    /\ search = None
    /\ captaincy = None
    /\ main = None
    /\ scorer_idle

\* Lines 48-101: a constraint of the problem is False and "model +=" raises
\* TypeError; nothing is solved and nothing returned.
OptimizerRaises ==
    /\ pc = "optimizer_call"
    /\ refused_line(player_gameweek_df, optimizer.budget) # None
    /\ pc' = "raised"
    /\ UNCHANGED <<current_gw, player_gameweek_df, search, captaincy, main>>
    /\ UNCHANGED scorer_vars
    /\ UNCHANGED call_vars

\* Lines 48-114: the problem is built and solved, and the four lists of
\* variables are returned.
OptimizerSolve ==
    /\ pc = "optimizer_call"
    /\ refused_line(player_gameweek_df, optimizer.budget) = None
    /\ \E model \in solve(player_gameweek_df, optimizer.bench_multiplier,
                           optimizer.budget) :
          optimizer' = [optimizer EXCEPT !.status = model.status,
                                         !.variables = model.variables]
    /\ pc' = "optimizer_solved"
    /\ UNCHANGED <<current_gw, player_gameweek_df, search, captaincy, main,
                   season>>
    /\ UNCHANGED scorer_vars

\* Lines 132-173: the ids of the variables that hold 1.
OptimizerRetrieve ==
    /\ pc = "optimizer_solved"
    /\ optimizer' =
         [optimizer EXCEPT
            !.model_output =
                retrieve_refactored_model_output(optimizer.variables,
                                                 player_gameweek_df)]
    /\ pc' = "optimizer_returned"
    /\ UNCHANGED <<current_gw, player_gameweek_df, search, captaincy, main,
                   season>>
    /\ UNCHANGED scorer_vars

\* Lines 175-196: the flags are written and the squad's rows selected.
OptimizerHistory ==
    /\ pc = "optimizer_returned"
    /\ LET history ==
               retrieve_model_gameweek_history(optimizer.model_output,
                                               player_gameweek_df)
       IN  /\ player_gameweek_df' = history.player_gameweek_df
           /\ optimizer' = [optimizer EXCEPT
                               !.model_players_df = history.model_players_df]
    /\ pc' = "optimizer_flagged"
    /\ UNCHANGED <<current_gw, search, captaincy, main, season>>
    /\ UNCHANGED scorer_vars

NextOptimizer ==
    \/ OptimizerRaises \/ OptimizerSolve
    \/ OptimizerRetrieve \/ OptimizerHistory

SpecOptimizer == InitOptimizer /\ [][NextOptimizer]_vars

-----------------------------------------------------------------------------
(* simulate_model_team(model_players_df) as a state machine: the loop of   *)
(* lines 377-385 around the steps of single_gw_simulation, and the total   *)
(* its callers take (lines 487-490)                                        *)

\* Largest number of times the simulator is called on a frame.
MaxCalls == 2

\* The locals of a call that has not started, with what earlier calls
\* returned and the gameweeks the scorer has been invoked with.
season_locals(model_players_df) ==
    [ model_players_df |-> model_players_df,
      i                |-> 1,
      points_by_gw     |-> << >>,
      total_points     |-> 0,
      invoked          |-> << >>,
      returned         |-> << >> ]

\* Which gameweeks the absent starters of a squad miss, every one or the
\* odd ones, and by how many rows the points move on from one gameweek to
\* the next: the same data every gameweek, or different data.
Calendars == { [attendance |-> "every", drift |-> 0],
               [attendance |-> "odd", drift |-> 1] }

Misses(attendance, g) ==
    \/ attendance = "every"
    \/ attendance = "odd" /\ g % 2 = 1

\* The squads the simulator is run on: a lineup shape, the starters that
\* miss gameweeks (none, or the goalkeeper and outfield starters of one
\* position after him), a bench order, a calendar and the points of a
\* profile.
SeasonInputs ==
    UNION {[formation : {f},
            absent : {a \in AbsentStarters(f) :
                         \/ Len(a) = 0
                         \/ /\ Len(a) = MaxAbsent - 1
                            /\ a[1] = "GK"
                            /\ \A k \in 2..Len(a) : a[k] = a[2]},
            bench : BenchOrders(f),
            calendar : Calendars,
            profile : Profiles]
           : f \in Formations}

\* The frame of an input, n gameweeks of it, captain on row 1 and
\* vice-captain on row 2.
season_frame(input, n) ==
    LET frame == SquadFrame(input.formation, input.absent, input.bench,
                            1, 2, input.profile, n)
    IN  [i \in 1..15 |->
          [frame[i] EXCEPT
             !.points = [g \in 1..n |->
                           input.profile.points[
                               ((i - 1 + input.calendar.drift * (g - 1))
                                    % 15) + 1]],
             !.minutes = [g \in 1..n |->
                            IF i <= Len(input.absent)
                                   /\ ~Misses(input.calendar.attendance, g)
                            THEN 90 ELSE @[g]]]]

\* fpl_data_retrieval.py lines 22-39: the id of the event the API marks as
\* current, one of the gameweeks of the season.
get_current_gameweek == 1..max_gameweek

\* No call has asked the API yet, and the frame holds the data of every
\* gameweek the API can name.
InitSeason ==
    /\ pc = "season_call"
    /\ current_gw = None
    /\ \E input \in SeasonInputs :
          season = season_locals(season_frame(input, max_gameweek))
    /\ player_gameweek_df = << >>
    /\ optimizer = None
    /\ search = None
    /\ captaincy = None
    /\ main = None
    /\ scorer_idle

\* range(1, current_gw) in place of line 378's range.
in_range_stops_early(i, cur) == i < cur

\* Line 378: i in range(1, current_gw + 1), for i counted up from 1.
in_range(i, cur) == i <= cur

\* Lines 198-200 and 377: a call of the simulator starts by asking the API
\* for the current gameweek, whatever earlier calls were told.
SeasonCall ==
    /\ pc = "season_call"
    /\ current_gw' \in get_current_gameweek
    /\ season' = [season EXCEPT !.i = 1, !.points_by_gw = << >>]
    /\ pc' = "season_loop"
    /\ UNCHANGED <<player_gameweek_df, search, captaincy, main, optimizer>>
    /\ UNCHANGED scorer_vars

\* Line 200: the request fails (requests.get raises) or no event is
\* current (next() raises StopIteration), and the exception leaves
\* simulate_model_team.
SeasonCallRaises ==
    /\ pc = "season_call"
    /\ pc' = "raised"
    /\ UNCHANGED <<current_gw, player_gameweek_df, search, captaincy, main>>
    /\ UNCHANGED scorer_vars
    /\ UNCHANGED call_vars

\* Lines 378-379 and 243-245: the scorer is called on the next gameweek.
SeasonInvoke ==
    /\ pc = "season_loop"
    /\ in_range(season.i, current_gw)
    /\ gw' = season.i
    /\ df' = season.model_players_df
    /\ sim' = [team_gameweek_points |-> 0]
    /\ next_player' = 1
    /\ result' = None
    /\ season' = [season EXCEPT !.invoked = Append(@, season.i)]
    /\ pc' = "start"
    /\ UNCHANGED <<current_gw, player_gameweek_df, search, captaincy, main,
                   optimizer>>

\* Lines 379-383: the result is appended under the gameweek's number.
SeasonAppend ==
    /\ pc = "done"
    /\ season' = [season EXCEPT
                     !.points_by_gw = Append(@, (season.i :> result)),
                     !.i = @ + 1]
    /\ pc' = "season_loop"
    /\ UNCHANGED <<current_gw, player_gameweek_df, search, captaincy, main,
                   optimizer>>
    /\ UNCHANGED scorer_vars

\* Lines 385 and 487-490: the list is returned and its caller totals it.
SeasonReturn ==
    /\ pc = "season_loop"
    /\ ~in_range(season.i, current_gw)
    /\ season' = [season EXCEPT
                     !.total_points = season_total(season.points_by_gw),
                     !.returned = Append(@, season.points_by_gw)]
    /\ pc' = "season_returned"
    /\ UNCHANGED <<current_gw, player_gameweek_df, search, captaincy, main,
                   optimizer>>
    /\ UNCHANGED scorer_vars

\* Lines 484, 553, 617, 661: the caller simulates the frame again.
SeasonAgain ==
    /\ pc = "season_returned"
    /\ Len(season.returned) < MaxCalls
    /\ pc' = "season_call"
    /\ UNCHANGED <<current_gw, player_gameweek_df, search, captaincy, main,
                   optimizer, season>>
    /\ UNCHANGED scorer_vars

\* The loop of line 378 passes no gameweek after current_gw, so the
\* scorer's early return (lines 247-249) is not a step of this machine.
NextSeason ==
    \/ SeasonCall \/ SeasonCallRaises \/ SeasonInvoke
    \/ ScoreStarters \/ CaptaincyBonus \/ Substitute \/ Return
    \/ SeasonAppend \/ SeasonReturn \/ SeasonAgain

SpecSeason == InitSeason /\ [][NextSeason]_vars

-----------------------------------------------------------------------------
(* Vocabulary of the properties of the Gameweek Scorer *)

Featured(r, g) == r.minutes[g] > 0

LineupRows(frame) == SelectSeq(frame, LAMBDA r : r.in_lineup)

OutfieldBenchRows(frame) ==
    SelectSeq(frame, LAMBDA r : r.on_bench /\ r.positions # "GK")

IndexOf(frame, id) == CHOOSE i \in 1..Len(frame) : frame[i].id = id

\* Sum of the points of the rows of a frame.
PointsOf(rows, g) == SumSeq([i \in 1..Len(rows) |-> rows[i].points[g]])

\* Points of the lineup players who featured.
StartersPoints(frame, g) ==
    PointsOf(SelectSeq(LineupRows(frame), LAMBDA r : Featured(r, g)), g)

\* Points of the players a substitution list brought on.
SubsInPoints(frame, g, subs) ==
    SumSeq([i \in 1..Len(subs) |-> RowOf(frame, subs[i].sub_in).points[g]])

TheCaptain(frame) == SelectSeq(frame, LAMBDA r : r.is_captain)[1]

TheViceCaptain(frame) == SelectSeq(frame, LAMBDA r : r.is_vice_captain)[1]

\* The ids on the pitch once a substitution list is applied to the lineup.
FieldedEleven(frame, subs) ==
    ({r.id : r \in {frame[i] : i \in {j \in 1..Len(frame) : frame[j].in_lineup}}}
        \ {subs[i].sub_out : i \in 1..Len(subs)})
    \cup {subs[i].sub_in : i \in 1..Len(subs)}

FieldedAt(frame, subs, pos) ==
    Cardinality({id \in FieldedEleven(frame, subs) :
                    RowOf(frame, id).positions = pos})

\* The scorer has returned the result of a completed gameweek.
Scored == pc = "done" /\ gw <= current_gw

-----------------------------------------------------------------------------
(* C1 *)

\* C1: after all non-featuring starters are processed, the lineup with each
\* substituted-out starter replaced by the substitute has 11 players, of
\* whom exactly 1 GK, at least 3 DEF, at least 2 MID and at least 1 FWD.
C1_FieldedElevenKeepsFormation ==
    Scored =>
        /\ Cardinality(FieldedEleven(df, result.subs_made)) = 11
        /\ FieldedAt(df, result.subs_made, "GK") = 1
        /\ FieldedAt(df, result.subs_made, "DEF") >= 3
        /\ FieldedAt(df, result.subs_made, "MID") >= 2
        /\ FieldedAt(df, result.subs_made, "FWD") >= 1

-----------------------------------------------------------------------------
(* C6, C7, C8 *)

\* C6: when neither the captain nor the vice-captain featured, the
\* captaincy-bonus step adds 0: right after it the running total is still
\* the sum of the featured starters' points.
C6_NoBonusWhenNeitherFeatured ==
    (/\ pc = "substitutions"
     /\ next_player = 1
     /\ ~Featured(TheCaptain(df), gw)
     /\ ~Featured(TheViceCaptain(df), gw))
        => sim.team_gameweek_points = StartersPoints(df, gw)

\* C7: when the captain did not feature and the vice-captain did, the flags
\* say so and the vice-captain's points are in the total exactly twice: once
\* among the featured starters and once more as the bonus, next to the
\* points of the players brought on.
C7_ViceCaptainDoubled ==
    (/\ Scored
     /\ ~Featured(TheCaptain(df), gw)
     /\ Featured(TheViceCaptain(df), gw))
        => /\ result.vice_play_in_captains_place = TRUE
           /\ result.did_captain_play = FALSE
           /\ result.points = StartersPoints(df, gw)
                                + TheViceCaptain(df).points[gw]
                                + SubsInPoints(df, gw, result.subs_made)

C7_Witness ==
    /\ Scored
    /\ ~Featured(TheCaptain(df), gw)
    /\ Featured(TheViceCaptain(df), gw)
    /\ TheViceCaptain(df).points[gw] # 0
    /\ result.vice_play_in_captains_place
    /\ Len(result.subs_made) > 0

\* C8: when all 11 lineup players featured there is no substitution and the
\* total is the lineup's points plus one more copy of the captain's.
C8_FullLineupScore ==
    (/\ Scored
     /\ \A i \in 1..Len(df) : df[i].in_lineup => Featured(df[i], gw))
        => /\ result.subs_made = << >>
           /\ result.points = PointsOf(LineupRows(df), gw)
                                + TheCaptain(df).points[gw]

C8_Witness ==
    /\ Scored
    /\ \A i \in 1..Len(df) : df[i].in_lineup => Featured(df[i], gw)
    /\ \E i \in 1..Len(df) : df[i].on_bench /\ ~Featured(df[i], gw)
    /\ TheCaptain(df).points[gw] # 0
    /\ result.subs_made = << >>

-----------------------------------------------------------------------------
(* C9 *)

\* The fixture of C9: exactly 3 starting DEF, exactly one of them did not
\* feature, and the outfield bench holds a DEF and a MID.
MissingDefenders ==
    {i \in 1..Len(df) : /\ df[i].in_lineup
                        /\ df[i].positions = "DEF"
                        /\ ~Featured(df[i], gw)}

C9_Fixture ==
    /\ Scored
    /\ Len(SelectSeq(LineupRows(df), LAMBDA r : r.positions = "DEF")) = 3
    /\ Cardinality(MissingDefenders) = 1
    /\ \E i, j \in 1..Len(df) :
          /\ df[i].on_bench /\ df[i].positions = "DEF"
          /\ df[j].on_bench /\ df[j].positions = "MID"

\* Row of the defender who did not feature.
MissingDefender == CHOOSE i \in MissingDefenders : TRUE

\* Fielded DEF once the first n substitutions are made: the featured
\* starting defenders and the defenders brought on.
SurvivingDefenders(n) ==
    Len(SelectSeq(LineupRows(df),
                  LAMBDA r : r.positions = "DEF" /\ Featured(r, gw)))
    + Cardinality({k \in 1..n :
                     RowOf(df, result.subs_made[k].sub_in).positions = "DEF"})

\* The defender's substitution is entry n of the list, a bench DEF came on,
\* and the DEF count is back at 3.
DefenderReplacedByDefender(n) ==
    /\ result.subs_made[n].sub_out = df[MissingDefender].id
    /\ RowOf(df, result.subs_made[n].sub_in).positions = "DEF"
    /\ RowOf(df, result.subs_made[n].sub_in).on_bench
    /\ SurvivingDefenders(n) = 3

\* C9 as stated: in the fixture, for every bench order, the substitute of
\* the missing defender is the bench DEF and the DEF count returns to 3.
C9_BenchDefenderChosen ==
    C9_Fixture =>
        \E n \in 1..Len(result.subs_made) : DefenderReplacedByDefender(n)

\* No bench DEF came on for a starter that precedes the missing defender in
\* lineup order.
NoDefenderOnBefore ==
    \A k \in 1..Len(result.subs_made) :
        IndexOf(df, result.subs_made[k].sub_out) < MissingDefender
            => RowOf(df, result.subs_made[k].sub_in).positions # "DEF"

\* C9 amended: in the fixture, for every bench order, provided no bench DEF
\* was brought on for an earlier non-featuring starter, the substitute of the
\* missing defender is the first bench DEF in bench order and the DEF count
\* returns to 3.
C9_BenchDefenderChosenIfNoneUsed ==
    (C9_Fixture /\ NoDefenderOnBefore) =>
        \E n \in 1..Len(result.subs_made) :
            /\ DefenderReplacedByDefender(n)
            /\ result.subs_made[n].sub_in =
                   SelectSeq(OutfieldBenchRows(df),
                             LAMBDA r : r.positions = "DEF")[1].id

\* The bench MID precedes the bench DEFs, an earlier starter was replaced,
\* and the missing defender still got a DEF.
C9_Witness ==
    /\ C9_Fixture
    /\ NoDefenderOnBefore
    /\ OutfieldBenchRows(df)[1].positions = "MID"
    /\ \E k, n \in 1..Len(result.subs_made) :
          /\ k < n
          /\ DefenderReplacedByDefender(n)

-----------------------------------------------------------------------------
(* C10 *)

StartingKeeper(frame) ==
    SelectSeq(frame, LAMBDA r : r.in_lineup /\ r.positions = "GK")[1]

BenchKeeper(frame) ==
    SelectSeq(frame, LAMBDA r : r.on_bench /\ r.positions = "GK")[1]

\* The starting goalkeeper did not feature and the bench goalkeeper did.
KeeperMissing ==
    /\ gw <= current_gw
    /\ ~Featured(StartingKeeper(df), gw)
    /\ Featured(BenchKeeper(df), gw)

\* The returned list has one entry for the starting goalkeeper, the bench
\* goalkeeper comes on in it, and in no other entry.
KeeperEntry ==
    (Scored /\ KeeperMissing) =>
        /\ Cardinality({n \in 1..Len(result.subs_made) :
               result.subs_made[n].sub_out = StartingKeeper(df).id}) = 1
        /\ Cardinality({n \in 1..Len(result.subs_made) :
               result.subs_made[n].sub_in = BenchKeeper(df).id}) = 1
        /\ \A n \in 1..Len(result.subs_made) :
               result.subs_made[n].sub_out = StartingKeeper(df).id
                   <=> result.subs_made[n].sub_in = BenchKeeper(df).id

\* The step that processes the starting goalkeeper adds the bench
\* goalkeeper's points to the running total, and every other step of the
\* loop adds the points of the player its entry (if any) brought on.
KeeperStep ==
    (/\ pc = "substitutions"
     /\ KeeperMissing
     /\ next_player' = next_player + 1)
        => IF sim.player_not_played[next_player] = StartingKeeper(df).id
           THEN /\ sim'.team_gameweek_points =
                       sim.team_gameweek_points + BenchKeeper(df).points[gw]
                /\ sim'.subs_made =
                       Append(sim.subs_made,
                              [sub_out |-> StartingKeeper(df).id,
                               sub_in  |-> BenchKeeper(df).id])
           ELSE /\ \A n \in 1..Len(sim'.subs_made) :
                       sim'.subs_made[n].sub_in # BenchKeeper(df).id
                          \/ n <= Len(sim.subs_made)
                /\ sim'.team_gameweek_points - sim.team_gameweek_points =
                       SubsInPoints(df, gw, sim'.subs_made)
                         - SubsInPoints(df, gw, sim.subs_made)

\* C10: when the starting goalkeeper did not feature and the bench
\* goalkeeper did, the list holds exactly one entry for the starting
\* goalkeeper, the bench goalkeeper comes on in it, and his points are added
\* to the total once, whatever the outfield players did.
C10_KeeperSubstituted == [](KeeperEntry) /\ [][KeeperStep]_vars

C10_Witness ==
    /\ Scored
    /\ KeeperMissing
    /\ BenchKeeper(df).points[gw] # 0
    /\ Len(result.subs_made) >= 3
    /\ \E n \in 1..Len(result.subs_made) :
           result.subs_made[n].sub_in = BenchKeeper(df).id

-----------------------------------------------------------------------------
(* Vocabulary of the properties of the searches *)

\* Every order of a list, as a set.
Orders(list) ==
    {p \in [1..Len(list) -> Elems(list)] :
        \A i, j \in 1..Len(list) : p[i] = p[j] => i = j}

\* The season total of a squad's rows put in a team order.
OrderTotal(frame, team_order) ==
    season_total(simulate_model_team(
        sort_values_bench_order(frame, team_order), current_gw))

\* The team orders of the squad being searched: lineup, bench goalkeeper,
\* then the outfield bench in any order.
TeamOrders ==
    {search.lineup_players \o search.bench_gk \o p
        : p \in Orders(search.bench_players)}

\* The search has recorded the weight whose squad is still in its locals.
WeightRecorded ==
    /\ pc \in {"search_weight", "search_returned"}
    /\ Len(search.best_weights_bench_order) > 0

LastRecorded ==
    search.best_weights_bench_order[Len(search.best_weights_bench_order)]

\* The season total of a squad with c as captain and v as vice-captain.
PairTotal(frame, c, v) ==
    season_total(simulate_model_team(final_return(frame, c, v), current_gw))

\* The ids a frame flags in a column.
Flagged(frame, column) ==
    {frame[i].id : i \in {j \in 1..Len(frame) : frame[j][column]}}

LineupPairs(frame) ==
    {p \in Flagged(frame, "in_lineup") \X Flagged(frame, "in_lineup") :
        p[1] # p[2]}

\* The first entry of the search's list with the highest total.
Winner ==
    LET entries == search.best_weights_bench_order
        k == CHOOSE i \in 1..Len(entries) :
                 /\ \A j \in 1..Len(entries) :
                       entries[j].best_total_points
                           <= entries[i].best_total_points
                 /\ \A j \in 1..(i - 1) :
                       entries[j].best_total_points
                           < entries[i].best_total_points
    IN  entries[k]

-----------------------------------------------------------------------------
(* C2, C3, C4, C5 *)

\* C2: for every weight, the recorded total is the maximum season total
\* over the 6 orders of the three outfield bench players (bench goalkeeper
\* fixed) and the recorded order is one of them that attains it, whatever
\* the sign of the season totals.
C2_RecordedOrderIsBruteForceBest ==
    WeightRecorded =>
        /\ LastRecorded.best_total_points =
               Maximum({OrderTotal(search.model_players_df, o)
                           : o \in TeamOrders})
        /\ LastRecorded.best_team_order \in TeamOrders
        /\ OrderTotal(search.model_players_df, LastRecorded.best_team_order)
               = LastRecorded.best_total_points

\* C3: the pair returned attains the maximum season total over the 110
\* ordered pairs of distinct lineup players, each pair scored with its
\* first player as captain and its second as vice-captain.
C3_ReturnedPairIsBruteForceBest ==
    (pc = "captaincy_returned" /\ captaincy.best_captain # None) =>
        \A p \in LineupPairs(captaincy.sorted_players_df) :
            PairTotal(captaincy.sorted_players_df, p[1], p[2])
                <= PairTotal(captaincy.sorted_players_df,
                             captaincy.best_captain,
                             captaincy.best_vice_captain)

\* C4: the squad the captaincy search enumerates pairs on is the squad of
\* the weight with the highest Phase 1 total, in that weight's best order.
C4_CaptaincyOnWinner ==
    pc = "captaincy_pair" =>
        /\ Ids(captaincy.sorted_players_df) = Winner.best_team_order
        /\ Flagged(captaincy.sorted_players_df, "in_lineup")
               = Elems(SubSeq(Winner.best_team_order, 1, 11))
        /\ Flagged(captaincy.sorted_players_df, "on_bench")
               = Elems(SubSeq(Winner.best_team_order, 12, 15))

\* C5: the returned squad has exactly one captain and exactly one
\* vice-captain, both in the lineup and not the same player.
C5_OneCaptainOneVice ==
    pc = "captaincy_returned" =>
        LET captains == Flagged(captaincy.final_return_df, "is_captain")
            vices    == Flagged(captaincy.final_return_df, "is_vice_captain")
        IN  /\ Cardinality(captains) = 1
            /\ Cardinality(vices) = 1
            /\ captains \subseteq Flagged(captaincy.final_return_df, "in_lineup")
            /\ vices \subseteq Flagged(captaincy.final_return_df, "in_lineup")
            /\ captains \cap vices = {}

-----------------------------------------------------------------------------
(* Vocabulary of the properties of the optimizer pipeline *)

\* The pipeline has handed the dict of ids back to its caller.
OptimizerReturned == pc \in {"optimizer_returned", "optimizer_flagged"}

\* The solver found an optimal solution of the problem.
Solved == optimizer.status = "Optimal"

\* The squad handed back: lineup then bench.
SquadIds == optimizer.model_output.lineup \o optimizer.model_output.bench

\* The row of the universe a returned id names.  The flag columns do not
\* matter here, and the row is looked up by id.
PlayerOf(id) == RowOf(player_gameweek_df, id)

\* How many entries of a list of ids play at pos.
NumberAt(list, pos) ==
    Len(SelectSeq(list, LAMBDA id : PlayerOf(id).positions = pos))

-----------------------------------------------------------------------------
(* C11 *)

\* C11: every squad the optimizer returns as a solution has 15 distinct
\* players, 11 in the lineup and 4 on the bench with no player in both,
\* one of two goalkeepers, three to five of five defenders, at least two
\* of five midfielders and at least one of three forwards in the lineup.
C11_SquadShape ==
    (OptimizerReturned /\ Solved) =>
        LET lineup == optimizer.model_output.lineup
            bench  == optimizer.model_output.bench
        IN  /\ Len(lineup) = 11
            /\ Len(bench) = 4
            /\ Cardinality(Elems(SquadIds)) = 15
            /\ Elems(lineup) \cap Elems(bench) = {}
            /\ Elems(SquadIds) \subseteq Elems(Ids(player_gameweek_df))
            /\ NumberAt(lineup, "GK") = 1
            /\ NumberAt(SquadIds, "GK") = 2
            /\ NumberAt(lineup, "DEF") \in 3..5
            /\ NumberAt(SquadIds, "DEF") = 5
            /\ NumberAt(lineup, "MID") >= 2
            /\ NumberAt(SquadIds, "MID") = 5
            /\ NumberAt(lineup, "FWD") >= 1
            /\ NumberAt(SquadIds, "FWD") = 3

\* A solved problem whose squad is back with the caller, four defenders
\* starting and one on the bench.
C11_Witness ==
    /\ OptimizerReturned
    /\ Solved
    /\ NumberAt(optimizer.model_output.lineup, "DEF") = 4
    /\ NumberAt(optimizer.model_output.bench, "DEF") = 1

-----------------------------------------------------------------------------
(* C12 *)

\* C12: when no assignment of players satisfies the constraints, what the
\* pipeline hands back to its caller says so explicitly and holds no
\* player: never a partial or constraint-violating squad.
C12_InfeasibilityReported ==
    (OptimizerReturned /\ ~Solved) =>
        /\ "status" \in DOMAIN optimizer.model_output
        /\ SquadIds = << >>
        /\ optimizer.model_output.captaincy = << >>
        /\ optimizer.model_output.vice_captaincy = << >>

-----------------------------------------------------------------------------
(* C13 *)

\* C13: every squad the optimizer returns has exactly one captain and
\* exactly one vice-captain, both in the lineup, never on the bench or
\* outside the squad, and they are different players.
C13_CaptainAndViceInLineup ==
    (OptimizerReturned /\ Solved) =>
        LET output == optimizer.model_output
        IN  /\ Len(output.captaincy) = 1
            /\ Len(output.vice_captaincy) = 1
            /\ output.captaincy[1] \in Elems(output.lineup)
            /\ output.vice_captaincy[1] \in Elems(output.lineup)
            /\ output.captaincy[1] \notin Elems(output.bench)
            /\ output.vice_captaincy[1] \notin Elems(output.bench)
            /\ output.captaincy[1] # output.vice_captaincy[1]

\* A returned squad whose captain outscored its vice-captain over the
\* season.
C13_Witness ==
    /\ OptimizerReturned
    /\ Solved
    /\ Len(optimizer.model_output.captaincy) = 1
    /\ Len(optimizer.model_output.vice_captaincy) = 1
    /\ PlayerOf(optimizer.model_output.captaincy[1]).total_points
          > PlayerOf(optimizer.model_output.vice_captaincy[1]).total_points

-----------------------------------------------------------------------------
(* C14 *)

\* The start-of-season cost of the fifteen members of the returned squad.
SquadCost ==
    SumSeq([k \in 1..Len(SquadIds) |-> PlayerOf(SquadIds[k]).start_cost])

\* C14: every squad the optimizer returns costs, lineup and bench together,
\* at most the budget cap it was given.
C14_SquadWithinBudget ==
    (OptimizerReturned /\ Solved) => SquadCost <= optimizer.budget

\* A squad returned under the lower cap, where the two goalkeepers the
\* budget of 1000 affords together are out of reach.
C14_Witness ==
    /\ OptimizerReturned
    /\ Solved
    /\ optimizer.budget < 1000
    /\ Len(SquadIds) = 15
    /\ SquadCost > optimizer.budget - 10

-----------------------------------------------------------------------------
(* C15 *)

\* The members of the returned squad that play for a club.
SquadOfClub(club) ==
    SelectSeq(SquadIds, LAMBDA id : PlayerOf(id).short_name = club)

\* The clubs of the universe.
Clubs == {player_gameweek_df[i].short_name : i \in Rows(player_gameweek_df)}

\* C15: every squad the optimizer returns has at most three players,
\* lineup and bench counted together, from any single club.
C15_ClubCap ==
    (OptimizerReturned /\ Solved) =>
        \A club \in Clubs : Len(SquadOfClub(club)) <= 3

\* A returned squad with three players of a club that has four in the
\* universe.
C15_Witness ==
    /\ OptimizerReturned
    /\ Solved
    /\ \E club \in Clubs :
          /\ Len(SquadOfClub(club)) = 3
          /\ Cardinality({i \in Rows(player_gameweek_df) :
                             player_gameweek_df[i].short_name = club}) = 4

-----------------------------------------------------------------------------
(* Vocabulary of the properties of the Season Simulator *)

\* The result recorded for gameweek g in a returned list.
ResultOf(points_by_gw, g) == points_by_gw[g][g]

\* The gameweeks 1, 2, ..., n, in increasing order.
Upto(n) == [i \in 1..n |-> i]

\* Lines 248 and 378: whenever the scorer runs or has returned inside
\* simulate_model_team, its gameweek is within the completed range, so no
\* run of the simulator takes the early return of line 249.
NoFutureGameweekScored ==
    pc \in {"start", "captaincy", "substitutions", "done"}
        => gw \in 1..current_gw

-----------------------------------------------------------------------------
(* C19 *)

\* C19: for a completed range [1, N] the Season Simulator invokes the
\* Gameweek Scorer exactly once for each gameweek 1, 2, ..., N in
\* increasing order and returns exactly N results in that order, the i-th
\* keyed by gameweek i and being the scorer's result for gameweek i; the
\* season total its caller takes is the sum of the N results' points.  N
\* is what the API told the call that has just returned; the invocations
\* of the calls before it are as many as the results they returned.
C19_OneResultPerGameweekInOrder ==
    pc = "season_returned" =>
        LET N == current_gw
            returned == season.returned[Len(season.returned)]
        IN  /\ season.invoked =
                   Concat([call \in 1..Len(season.returned) |->
                              Upto(Len(season.returned[call]))])
            /\ Len(returned) = N
            /\ \A i \in 1..N :
                  /\ DOMAIN returned[i] = {i}
                  /\ returned[i][i] =
                        single_gw_simulation(i, season.model_players_df, N)
            /\ season.total_points =
                   SumSeq([i \in 1..N |-> ResultOf(returned, i).points])

\* A returned season of at least two gameweeks whose first gameweek saw
\* substitutions and whose gameweeks scored differently.
C19_Witness ==
    /\ pc = "season_returned"
    /\ current_gw >= 2
    /\ Len(season.points_by_gw) = current_gw
    /\ ResultOf(season.points_by_gw, 1).subs_made # << >>
    /\ ResultOf(season.points_by_gw, 1).points
          # ResultOf(season.points_by_gw, 2).points

-----------------------------------------------------------------------------
(* C16 *)

\* One gameweek's points and minutes of every row of a frame.
GameweekData(frame, g) ==
    [i \in 1..Len(frame) |-> <<frame[i].points[g], frame[i].minutes[g]>>]

\* Every list of results the simulator has built on the frame: those of
\* the calls that returned and that of the call under way.
Recorded == Append(season.returned, season.points_by_gw)

\* C16: the Gameweek Scorer is a pure function: for the same squad
\* configuration and the same gameweek's points and minutes, every
\* invocation returns the same points, substitution list and flags,
\* however many scorer or simulator calls happened before.  The lists
\* change when a result is appended and when a call starts or returns, and
\* are compared there.
C16_ScorerIsPure ==
    pc \in {"season_loop", "season_returned"} =>
        \A k, l \in 1..Len(Recorded) :
            \A i \in 1..Len(Recorded[k]), j \in 1..Len(Recorded[l]) :
                GameweekData(season.model_players_df, i)
                      = GameweekData(season.model_players_df, j)
                   => ResultOf(Recorded[k], i) = ResultOf(Recorded[l], j)

\* Two calls of the simulator have returned on a frame whose first two
\* gameweeks hold the same data, and the first gameweek used up two or more
\* bench players.
C16_Witness ==
    /\ pc = "season_returned"
    /\ Len(season.returned) = 2
    /\ current_gw >= 2
    /\ GameweekData(season.model_players_df, 1)
          = GameweekData(season.model_players_df, 2)
    /\ Len(ResultOf(season.returned[1], 1).subs_made) >= 2

-----------------------------------------------------------------------------
(* C18 *)

\* The frame with the points and minutes of every gameweek but g changed:
\* who featured did not, who did not did, and the points are others.
OtherGameweeksChanged(frame, g) ==
    [i \in 1..Len(frame) |->
        LET points  == frame[i].points
            minutes == frame[i].minutes
        IN  [frame[i] EXCEPT
               !.points  = [h \in 1..Len(points) |->
                              IF h = g THEN points[h] ELSE 1 - points[h]],
               !.minutes = [h \in 1..Len(minutes) |->
                              IF h = g THEN minutes[h]
                              ELSE IF minutes[h] > 0 THEN 0 ELSE 90]]]

\* C18: gameweeks are independent in the Season Simulator.  When the
\* scoring of a gameweek starts, the bench, the bench goalkeeper and the
\* position counters are those of the squad, whatever earlier gameweeks
\* used up or raised; and every result in the list, each time one has been
\* appended, is what the gameweek gives with the data of every other
\* gameweek changed.
C18_GameweeksIndependent ==
    /\ pc = "captaincy" =>
          /\ sim.bench_player_ids = Ids(OutfieldBenchRows(df))
          /\ sim.bench_keeper_id = BenchKeeper(df).id
          /\ \A pos \in Outfield :
                position_count(sim, pos) =
                    Len(SelectSeq(LineupRows(df),
                                  LAMBDA r : r.positions = pos))
          /\ sim.subs_made = << >>
    /\ pc = "season_loop" =>
          \A g \in 1..Len(season.points_by_gw) :
              ResultOf(season.points_by_gw, g) =
                  single_gw_simulation(
                      g, OtherGameweeksChanged(season.model_players_df, g),
                      current_gw)

\* The scoring of the second gameweek starts after a first gameweek in
\* which the bench goalkeeper and outfield bench players came on, and the
\* two gameweeks hold different data.
C18_Witness ==
    /\ pc = "captaincy"
    /\ gw = 2
    /\ Len(season.points_by_gw) = 1
    /\ \E m \in 1..Len(ResultOf(season.points_by_gw, 1).subs_made) :
          ResultOf(season.points_by_gw, 1).subs_made[m].sub_in
              = BenchKeeper(df).id
    /\ Len(ResultOf(season.points_by_gw, 1).subs_made) >= 2
    /\ GameweekData(df, 1) # GameweekData(df, 2)

-----------------------------------------------------------------------------
(* C20 *)

\* C20: a failure while evaluating one candidate of a search (a bench
\* order in Phase 1, a captaincy pair in Phase 2) does not abort the
\* search: whatever happens to a candidate, the search goes on to its next
\* sibling, so that all of them are tried and a best one is produced.
C20_FailureDoesNotAbort ==
    [][ /\ (pc = "search_order"
              /\ search.bench_order <= Len(search.players_bench_orders))
           => (pc' = "search_order"
                 /\ search'.bench_order = search.bench_order + 1)
        /\ (pc = "captaincy_pair"
              /\ captaincy.count <= Len(captaincy.all_captaincy_pairs))
           => (pc' = "captaincy_pair"
                 /\ captaincy'.count = captaincy.count + 1) ]_vars

-----------------------------------------------------------------------------
(* C21 *)

\* C21: the frame of all players handed to the search is an immutable
\* input: no step of find_optimal_weighting_and_ordering changes its
\* columns or its values.
C21_RegistryUnchanged ==
    [][ (pc \in {"search_weight", "search_order"})
            => (player_gameweek_df' = player_gameweek_df) ]_vars

-----------------------------------------------------------------------------
(* Vocabulary of the substitution steps *)

\* A step of the loop over player_not_played is being taken.
SubstitutionStep == pc = "substitutions" /\ next_player' = next_player + 1

\* The starter the step processes and his position.
StepPlayer == sim.player_not_played[next_player]

StepPosition == RowOf(df, StepPlayer).positions

\* The ids a substitution list brought on and took off.
BroughtOn(subs) == {subs[i].sub_in : i \in 1..Len(subs)}

TakenOff(subs) == {subs[i].sub_out : i \in 1..Len(subs)}

\* The outfield bench rows, in bench order, not brought on by a list.
Unconsumed(frame, subs) ==
    SelectSeq(OutfieldBenchRows(frame), LAMBDA r : r.id \notin BroughtOn(subs))

\* The lineup players who did not feature, in lineup order.
NonFeaturing(frame, g) ==
    SelectSeq(LineupRows(frame), LAMBDA r : ~Featured(r, g))

\* The three counters, by position.
Counters(s) ==
    [pos \in Outfield |-> position_count(s, pos)]

\* The count of a position at or below which a substitute must be of the
\* same position: DEF <= 3, MID <= 2, FWD <= 1.
Floor == ("DEF" :> 3) @@ ("MID" :> 2) @@ ("FWD" :> 1)

\* The bench rows eligible for the starter of the step: at or below the
\* floor the unconsumed bench players of his position, above it every
\* unconsumed outfield bench player, both in bench order.
Eligible ==
    IF Counters(sim)[StepPosition] <= Floor[StepPosition]
    THEN SelectSeq(Unconsumed(df, sim.subs_made),
                   LAMBDA r : r.positions = StepPosition)
    ELSE Unconsumed(df, sim.subs_made)

-----------------------------------------------------------------------------
(* C22 *)

\* C22: the non-featuring starters are processed in lineup order, and for
\* an outfield one of position P: if the count of P is at or below its floor
\* the substitute is the first unconsumed outfield bench player of position
\* P in bench order, otherwise the first unconsumed outfield bench player
\* of any position, and the count of the substitute's own position rises by
\* one while the other two counts stay.
C22_SubstituteSelection ==
    [][ (SubstitutionStep /\ StepPosition \in Outfield)
          => /\ StepPlayer = NonFeaturing(df, gw)[next_player].id
             /\ IF Len(Eligible) > 0
                THEN /\ sim'.subs_made =
                          Append(sim.subs_made,
                                 [sub_out |-> StepPlayer,
                                  sub_in  |-> Eligible[1].id])
                     /\ Counters(sim') =
                          [Counters(sim) EXCEPT
                              ![Eligible[1].positions] = @ + 1]
                ELSE sim'.subs_made = sim.subs_made ]_vars

\* A returned list in which a starter at the floor got a later bench player
\* of his own position while the first of the bench was still unused, and a
\* later starter, above the floor, got that first one, of another position.
C22_Witness ==
    /\ Scored
    /\ \E n, m \in 1..Len(result.subs_made) :
          /\ n < m
          /\ result.subs_made[n].sub_in # OutfieldBenchRows(df)[1].id
          /\ RowOf(df, result.subs_made[n].sub_in).positions
                 = RowOf(df, result.subs_made[n].sub_out).positions
          /\ RowOf(df, result.subs_made[n].sub_out).positions \in Outfield
          /\ result.subs_made[m].sub_in = OutfieldBenchRows(df)[1].id
          /\ RowOf(df, result.subs_made[m].sub_in).positions
                 # RowOf(df, result.subs_made[m].sub_out).positions

-----------------------------------------------------------------------------
(* C23 *)

\* A candidate pair is about to be scored.
PairPending ==
    /\ pc = "captaincy_pair"
    /\ captaincy.count <= Len(captaincy.all_captaincy_pairs)

\* C23: the frame the Season Simulator scores for the candidate pair (c, v)
\* has exactly one captain, c, and exactly one vice-captain, v, and c is
\* not v.
C23_PairScoredAsCaptainAndVice ==
    PairPending =>
        LET captaincy_pair == captaincy.all_captaincy_pairs[captaincy.count]
            captaincy_check_df ==
                captaincy_check(captaincy.sorted_players_df, captaincy_pair)
        IN  /\ captaincy_pair[1] # captaincy_pair[2]
            /\ Flagged(captaincy_check_df, "is_captain") = {captaincy_pair[1]}
            /\ Flagged(captaincy_check_df, "is_vice_captain")
                   = {captaincy_pair[2]}

-----------------------------------------------------------------------------
(* C24 *)

\* A substitution list pairs distinct non-featuring lineup players with
\* distinct bench players of the squad.
OneToOne(frame, g, subs) ==
    /\ Cardinality(BroughtOn(subs)) = Len(subs)
    /\ Cardinality(TakenOff(subs)) = Len(subs)
    /\ TakenOff(subs) \subseteq Elems(Ids(NonFeaturing(frame, g)))
    /\ BroughtOn(subs) \subseteq
           Elems(Ids(SelectSeq(frame, LAMBDA r : r.on_bench)))

\* C24: within a gameweek no bench player is brought on more than once and
\* no lineup player is taken off more than once: every entry pairs a
\* distinct non-featuring lineup player with a distinct bench player of the
\* squad, and a bench player brought on is no longer among those offered to
\* the starters still to be processed.
C24_SubstitutionsOneToOne ==
    /\ pc = "substitutions" =>
          /\ OneToOne(df, gw, sim.subs_made)
          /\ Elems(sim.bench_player_ids) \cap BroughtOn(sim.subs_made) = {}
          /\ sim.bench_keeper_id \notin BroughtOn(sim.subs_made)
    /\ Scored => OneToOne(df, gw, result.subs_made)

\* All four bench players came on, each for a different starter.
C24_Witness ==
    /\ Scored
    /\ Len(result.subs_made) = 4
    /\ BenchKeeper(df).id \in BroughtOn(result.subs_made)

-----------------------------------------------------------------------------
(* C25 *)

\* The goalkeeper and the outfield bench never cross in a substitution
\* list: the bench goalkeeper comes on for the starting goalkeeper only,
\* and an outfield bench player for an outfield starter only.
KeepersApart(frame, subs) ==
    \A n \in 1..Len(subs) :
        (RowOf(frame, subs[n].sub_in).positions = "GK")
            <=> (RowOf(frame, subs[n].sub_out).positions = "GK")

\* The step that processes the starting goalkeeper leaves the outfield
\* bench and the three counters as they were.
KeeperStepFrame ==
    (SubstitutionStep /\ StepPosition = "GK")
        => /\ sim'.bench_player_ids = sim.bench_player_ids
           /\ Unconsumed(df, sim'.subs_made) = Unconsumed(df, sim.subs_made)
           /\ Counters(sim') = Counters(sim)

\* C25: the bench goalkeeper is brought on only for the starting
\* goalkeeper and never for an outfield starter, an outfield bench player
\* is never brought on for the goalkeeper, and a goalkeeper substitution
\* neither consumes an outfield bench slot nor changes the DEF/MID/FWD
\* counts.
C25_KeeperBenchSeparate ==
    /\ [](pc = "substitutions" => KeepersApart(df, sim.subs_made))
    /\ [](Scored => KeepersApart(df, result.subs_made))
    /\ [][KeeperStepFrame]_vars

\* The keeper came on first, and three outfield starters after him took the
\* whole outfield bench.
C25_Witness ==
    /\ Scored
    /\ Len(result.subs_made) = 4
    /\ result.subs_made[1].sub_in = BenchKeeper(df).id
    /\ result.subs_made[1].sub_out = StartingKeeper(df).id
    /\ ~Featured(BenchKeeper(df), gw)

-----------------------------------------------------------------------------
(* C26 *)

\* C26: when no eligible bench player remains for a non-featuring outfield
\* starter (the outfield bench is used up, or his position is at or below
\* its floor and no unconsumed bench player has it), the step raises no
\* error and changes nothing: no entry is recorded, the bench, the counts
\* and the running total stay, and the loop goes on to the next starter.
C26_UnfilledChangesNothing ==
    [][ (/\ pc = "substitutions"
         /\ next_player <= Len(sim.player_not_played)
         /\ StepPosition \in Outfield
         /\ Len(Eligible) = 0)
          => /\ sim' = sim
             /\ pc' = "substitutions"
             /\ next_player' = next_player + 1 ]_vars

\* Four outfield starters did not feature: the bench served the first
\* three, the fourth was left without a substitute and a total that is not
\* zero was returned.
C26_Witness ==
    /\ Scored
    /\ Len(NonFeaturing(df, gw)) = 4
    /\ Len(result.subs_made) = 3
    /\ NonFeaturing(df, gw)[4].id \notin TakenOff(result.subs_made)
    /\ NonFeaturing(df, gw)[4].positions \in Outfield
    /\ result.points # 0

-----------------------------------------------------------------------------
(* C27 *)

\* The captaincy bonus: the captain's points if the captain featured,
\* otherwise the vice-captain's points.
CaptaincyBonusPoints(frame, g) ==
    IF Featured(TheCaptain(frame), g)
    THEN TheCaptain(frame).points[g]
    ELSE TheViceCaptain(frame).points[g]

\* C27: for every completed gameweek the returned points are the points of
\* the lineup players who featured, plus the captaincy bonus, plus the
\* points of every player listed as sub_in, and nothing else.
C27_PointsAccounting ==
    Scored =>
        result.points = StartersPoints(df, gw)
                          + CaptaincyBonusPoints(df, gw)
                          + SubsInPoints(df, gw, result.subs_made)

\* Captain and vice-captain both missed the gameweek, the vice-captain's
\* row holds points that are not zero, and the players brought on add
\* points that are not zero.
C27_Witness ==
    /\ Scored
    /\ ~Featured(TheCaptain(df), gw)
    /\ ~Featured(TheViceCaptain(df), gw)
    /\ TheViceCaptain(df).points[gw] # 0
    /\ Len(result.subs_made) >= 2
    /\ SubsInPoints(df, gw, result.subs_made) # 0
    /\ StartersPoints(df, gw) # 0

-----------------------------------------------------------------------------
(* C28 *)

\* The lineup players of a position, featuring or not.
LineupAt(frame, pos) ==
    Len(SelectSeq(LineupRows(frame), LAMBDA r : r.positions = pos))

\* The outfield bench players of a position a substitution list brought on.
BroughtOnAt(frame, subs, pos) ==
    Cardinality({id \in BroughtOn(subs) :
                    /\ RowOf(frame, id).positions = pos
                    /\ RowOf(frame, id).on_bench})

\* C28: within a gameweek the DEF, MID and FWD counters never decrease:
\* after any number of substitutions each equals the number of lineup
\* players of the position, featuring or not, plus the number of bench
\* players of the position brought on so far; a starter who did not
\* feature is never deducted.
C28_CountersOnlyRise ==
    /\ [](pc = "substitutions" =>
            \A pos \in Outfield :
                Counters(sim)[pos] = LineupAt(df, pos)
                    + BroughtOnAt(df, sim.subs_made, pos))
    /\ [][ (pc = "substitutions" /\ pc' = "substitutions")
              => \A pos \in Outfield :
                     Counters(sim')[pos] >= Counters(sim)[pos] ]_vars

\* Two defenders of a back three did not feature and two bench players
\* came on for them: the DEF counter stands at four or five, with one
\* defender at most on the pitch.
C28_Witness ==
    /\ pc = "substitutions"
    /\ next_player > Len(sim.player_not_played)
    /\ LineupAt(df, "DEF") = 3
    /\ Len(SelectSeq(NonFeaturing(df, gw), LAMBDA r : r.positions = "DEF")) = 2
    /\ Len(sim.subs_made) = 2
    /\ Counters(sim)["DEF"] >= 4
    /\ BroughtOnAt(df, sim.subs_made, "MID") = 1

-----------------------------------------------------------------------------
(* C29 *)

\* The locals of single_gw_simulation when its loop has ended (line 366).
final_locals(g, frame) ==
    substitution_loop(
        captaincy_bonus(score_starters(gw_locals(frame), g, frame), g, frame),
        g, frame, 1)

\* Other minutes the bench rows (12 to 15) of a frame can have in a
\* gameweek: who featured did not and who did not did, and every other
\* player featured, either way round.
BenchMinutes(frame, g) ==
    { [i \in 12..15 |-> IF frame[i].minutes[g] > 0 THEN 0 ELSE 90],
      [i \in 12..15 |-> IF i % 2 = 0 THEN 90 ELSE 0],
      [i \in 12..15 |-> IF i % 2 = 0 THEN 0 ELSE 1] }

\* A frame with the gameweek's minutes of its bench rows replaced.
WithBenchMinutes(frame, g, minutes) ==
    [i \in 1..Len(frame) |->
        IF frame[i].on_bench
        THEN [frame[i] EXCEPT !.minutes[g] = minutes[i]]
        ELSE frame[i]]

\* C29: the choice of substitutes does not depend on whether bench players
\* featured: a gameweek input that differs from the one scored only in the
\* minutes of bench players gives the same substitution list, the same
\* consumed bench slots and the same total.
C29_BenchMinutesIgnored ==
    [](Scored =>
        \A minutes \in BenchMinutes(df, gw) :
            LET other == WithBenchMinutes(df, gw, minutes)
                there == final_locals(gw, other)
            IN  /\ return_dic(there) = result
                /\ there.bench_player_ids = sim.bench_player_ids
                /\ there.bench_keeper_id = sim.bench_keeper_id)

\* No bench player featured, yet the bench goalkeeper and two outfield
\* bench players came on and their points, which are not zero, were added.
C29_Witness ==
    /\ Scored
    /\ \A i \in 1..Len(df) : df[i].on_bench => ~Featured(df[i], gw)
    /\ Len(result.subs_made) >= 3
    /\ BenchKeeper(df).id \in BroughtOn(result.subs_made)
    /\ SubsInPoints(df, gw, result.subs_made) # 0

-----------------------------------------------------------------------------
(* C30 *)

\* The season points of a returned id (the column total_points).
SeasonPoints(id) == PlayerOf(id).total_points

\* C30: in every optimal solution for a bench weight w with 0 < w < 1 the
\* captain's season points are at least those of every other lineup
\* player, and the vice-captain's at least those of every lineup player
\* other than the captain.
C30_CaptainIsTopScorer ==
    (/\ OptimizerReturned
     /\ Solved
     /\ optimizer.bench_multiplier \in 1..99)
        => LET captain == optimizer.model_output.captaincy[1]
               vice_captain == optimizer.model_output.vice_captaincy[1]
           IN  \A id \in Elems(optimizer.model_output.lineup) :
                   /\ SeasonPoints(captain) >= SeasonPoints(id)
                   /\ id # captain
                        => SeasonPoints(vice_captain) >= SeasonPoints(id)

\* An optimal squad of a league that scores below zero: the captain's
\* season points are below zero, above the vice-captain's, and a starter
\* scores less than either.
C30_Witness ==
    /\ OptimizerReturned
    /\ Solved
    /\ optimizer.bench_multiplier \in 1..99
    /\ SeasonPoints(optimizer.model_output.captaincy[1]) < 0
    /\ SeasonPoints(optimizer.model_output.captaincy[1])
           > SeasonPoints(optimizer.model_output.vice_captaincy[1])
    /\ \E id \in Elems(optimizer.model_output.lineup) :
           SeasonPoints(id)
               < SeasonPoints(optimizer.model_output.vice_captaincy[1])

=============================================================================
